---- MODULE Spec2Model ----
(***************************************************************************)
(* MyHelenBackup: the scheduled MySQL dump tool of src/database.py,        *)
(* src/security.py and src/ui.py.                                          *)
(*                                                                         *)
(* The backup directory is a set of artifacts, each a record               *)
(*   [id, mtime, size, content]                                            *)
(* where id stands for the path {database}_{timestamp}.sql, mtime for      *)
(* os.path.getmtime, size for os.path.getsize and content for what         *)
(* validate_backup_integrity reads in the first lines of the file.         *)
(*                                                                         *)
(* Sizes are bytes.  size_reduction_threshold is the float of the source   *)
(* times 100 (0.8 is 80); the comparisons with the historical average are  *)
(* cross-multiplied so that they stay in the integers.                     *)
(***************************************************************************)
EXTENDS Integers, Sequences, FiniteSets, TLC

(***************************************************************************)
(* Bounds of the model.                                                    *)
(***************************************************************************)
\* artifacts in the directory the validator and retention specification draw
MaxPrior == 6
\* sizes are multiples of one KB, up to MaxSizeKb KB
MaxSizeKb == 5
\* distinct modification times of the drawn artifacts
MaxMtime == 2
\* max_copies ranges over 0..MaxCopies
MaxCopies == 3
\* the clock-time grid of the off-peak window specification: slots per day
TimeSlots == 48
\* the scheduler specification advances the time of day in DayParts steps
DayParts == 4
\* dumps one run of the cycle specification produces
MaxDumps == 1
\* dumps one run of the scheduler specification produces
SchedulerDumps == 1
\* chat identifiers
MaxChats == 2
\* update_ids Telegram gives out in one run
MaxEvents == 3
\* set_security_thresholds: min_size_kb ranges over 1..MaxMinSizeKb
MaxMinSizeKb == 2
\* the ends of the drawn off-peak windows: slots per day, and the two of __init__
WindowSlots == 6

(***************************************************************************)
(* Program constants.                                                      *)
(***************************************************************************)
\* self.min_size_threshold = 1024
DefaultMinSize == 1024
\* self.size_reduction_threshold = 0.8, times 100
DefaultReduction == 80
\* previous_backups[:5]
HistoryLimit == 5
\* self.night_interval = 60
night_interval == 60
\* the "interval" the window is built with: self.config.get("interval", 5)
normal_interval == 5
\* schedule.every(1).minutes.do(self.check_night_mode_transition)
check_interval == 1
MinutesPerDay == 24 * 60
\* dt_time(20, 30)
NightStart == 20 * 60 + 30
\* dt_time(5, 0)
NightEnd == 5 * 60

KB == DefaultMinSize

Sizes == {k * KB : k \in 0..MaxSizeKb}

(***************************************************************************)
(* What the first lines of an artifact look like to                        *)
(* validate_backup_integrity:                                              *)
(*   "sql"      decodes as UTF-8, a dump marker in the first 10 lines      *)
(*   "nosql"    decodes as UTF-8, no dump marker in the first 10 lines     *)
(*   "latin1"   does not decode as UTF-8, first line not blank, a dump     *)
(*              marker in the first 10 lines                               *)
(*   "latin1_nosql"  does not decode as UTF-8, first line not blank, no    *)
(*              dump marker in the first 10 lines                          *)
(*   "blank"    does not decode as UTF-8, first line blank                 *)
(***************************************************************************)
Contents == {"sql", "nosql", "latin1", "latin1_nosql", "blank"}

\* chat identifiers that may write to the bot
Chats == 1..MaxChats

VARIABLES
    files,                      \* the artifacts of the database in dump_dir
    clock,                      \* dumps produced so far: names the next artifact
    min_size_threshold,         \* BackupSecurityValidator.min_size_threshold
    size_reduction_threshold,   \* BackupSecurityValidator.size_reduction_threshold * 100
    max_copies,                 \* MySQLDumpScheduler.max_copies
    security_enabled,           \* MySQLDumpScheduler.security_enabled
    running,                    \* MySQLDumpScheduler.running
    telegram_enabled,           \* MySQLDumpScheduler.telegram_enabled
    auto_subscribe,             \* MySQLDumpScheduler.auto_subscribe
    telegram_subscribers,       \* MySQLDumpScheduler.telegram_subscribers
    subscribers_file,           \* telegram_subscribers.json: [readable, subscribers]
    stop_notification_sent,     \* hasattr(self, '_stop_notification_sent')
    night_mode,                 \* MySQLDumpScheduler.night_mode
    night_start_time,           \* minutes after midnight
    night_end_time,
    current_time,               \* datetime.now().time(), minutes after midnight
    jobs,                       \* schedule.jobs of the default scheduler
    runnable,                   \* run_pending: the due jobs still to run
    thread_alive,               \* the run_scheduler thread exists
    listener_alive,             \* the listen_for_new_users thread exists
    startup_pending,            \* the _send_startup_notification thread has not run yet
    stop_notices,               \* shutdown notices dispatched by stop() so far
    in_cycle,                   \* the threads that are inside a backup cycle
    unwritten,                  \* save_subscribers: the lists built and not yet written
    listener,                   \* listen_for_new_users: where the thread is, and
                                \* what it did since stop() or quick_shutdown()
    stopping,                   \* a stop() call is inside its last send_telegram_alert
    cycle_at,                   \* per thread: where its backup cycle is, and its dump_file
    rejected,                   \* the sizes the size check refused since a dump last passed
    quit_at,                    \* App.quit_app in the tray thread: idle, sending, stop, done
    inbound,                    \* the bot's updates at Telegram, and what became of them
    last                        \* what the last call did and returned

vars == <<files, clock, min_size_threshold, size_reduction_threshold, max_copies,
          security_enabled, running, telegram_enabled, auto_subscribe,
          telegram_subscribers, subscribers_file, stop_notification_sent,
          night_mode, night_start_time, night_end_time, current_time,
          jobs, runnable, thread_alive, listener_alive, startup_pending,
          stop_notices, in_cycle, unwritten, listener, stopping, cycle_at,
          rejected, quit_at, inbound, last>>

(***************************************************************************)
(* Helpers on the directory.                                               *)
(***************************************************************************)
RECURSIVE SumTo(_, _)
SumTo(c, n) == IF n = 0 THEN 0 ELSE c[n] + SumTo(c, n - 1)

\* a set of pairs of numbers as a sequence, in lexicographic order
RECURSIVE SetToSeq2(_)
SetToSeq2(S) ==
    IF S = {} THEN <<>>
    ELSE LET x == CHOOSE y \in S : \A z \in S :
                      y[1] < z[1] \/ (y[1] = z[1] /\ y[2] <= z[2])
         IN <<x>> \o SetToSeq2(S \ {x})

RECURSIVE SumSizes(_)
SumSizes(S) ==
    IF S = {} THEN 0
    ELSE LET f == CHOOSE x \in S : TRUE IN f.size + SumSizes(S \ {f})

MinSize(S) == CHOOSE m \in {f.size : f \in S} : \A f \in S : m <= f.size

Ids(dir) == {f.id : f \in dir}

FileOf(dir, path) == CHOOSE f \in dir : f.id = path

\* The first n entries of a list of S sorted by mtime, most recent first.  The
\* sort is stable on the order glob returned, which is arbitrary, so among
\* equal mtimes any choice is possible: the result is one of these sets.
NewestN(S, n) ==
    IF Cardinality(S) <= n THEN {S}
    ELSE IF n = 0 THEN {{}}
    ELSE LET newer(m) == {f \in S : f.mtime > m}
             tied(m) == {f \in S : f.mtime = m}
             \* the mtime of the n-th entry of the sorted list
             cut == CHOOSE m \in {f.mtime : f \in S} :
                      /\ Cardinality(newer(m)) < n
                      /\ n <= Cardinality(newer(m)) + Cardinality(tied(m))
         IN {newer(cut) \cup T :
               T \in {X \in SUBSET tied(cut) :
                         Cardinality(X) = n - Cardinality(newer(cut))}}

Min2(a, b) == IF a < b THEN a ELSE b
Max2(a, b) == IF a > b THEN a ELSE b

(***************************************************************************)
(* The directories the specifications start from.  An artifact that is in  *)
(* the directory at the start is one of a few kinds (a size and an mtime); *)
(* a directory is given by how many artifacts of each kind it holds, since *)
(* nothing depends on the paths but their being distinct.                  *)
(***************************************************************************)
PriorSizes == {(MaxSizeKb - 3) * KB, MaxSizeKb * KB}

\* the kinds of artifact with a size of the set sizes, as a sequence
Kinds(sizes) == SetToSeq2(sizes \X (1..MaxMtime))

KindCounts(kinds) ==
    {c \in [1..Len(kinds) -> 0..MaxPrior] : SumTo(c, Len(kinds)) <= MaxPrior}

Directory(kinds, c) ==
    {[id |-> (k - 1) * MaxPrior + i, mtime |-> kinds[k][2],
      size |-> kinds[k][1], content |-> "sql"]
       : <<k, i>> \in {x \in (1..Len(kinds)) \X (1..MaxPrior) : x[2] <= c[x[1]]}}

\* the path of the n-th dump of a run: none of a drawn directory
NewId(n) == Cardinality(PriorSizes) * MaxMtime * MaxPrior + n + 1

(***************************************************************************)
(* BackupSecurityValidator                                                 *)
(***************************************************************************)
Verdict(safe, msg) == [safe |-> safe, msg |-> msg]

\* validate_backup_integrity with "file_size <= self.min_size_threshold"
validate_backup_integrity_le(dir, path, minSize) ==
    IF path \notin Ids(dir) THEN FALSE
    ELSE LET f == FileOf(dir, path) IN
         IF f.size <= minSize THEN FALSE
         ELSE f.content \in {"sql", "latin1", "latin1_nosql"}

validate_backup_integrity(dir, path, minSize) ==
    IF path \notin Ids(dir) THEN FALSE
    ELSE LET f == FileOf(dir, path) IN
         IF f.size < minSize THEN FALSE
         ELSE CASE f.content = "sql"    -> TRUE
                [] f.content = "nosql"  -> FALSE
                [] f.content = "latin1" -> TRUE
                   \* the latin-1 branch reads one line and looks for no marker
                [] f.content = "latin1_nosql" -> TRUE
                [] f.content = "blank"  -> FALSE

\* Histories without "if path != new_backup_path"
Histories_all(dir, path) == NewestN(dir, HistoryLimit)

\* The artifacts the size check may take as its history: previous_backups[:5].
Histories(dir, path) == NewestN({f \in dir : f.id # path}, HistoryLimit)

\* check_size_consistency with "new_size <= avg_size * threshold"
check_size_consistency_le(dir, path, H, minSize, reduction) ==
    IF path \notin Ids(dir) THEN Verdict(FALSE, "missing")
    ELSE LET new_size == FileOf(dir, path).size IN
         IF H = {} THEN
              IF new_size >= minSize THEN Verdict(TRUE, "first_backup")
              ELSE Verdict(FALSE, "first_backup_too_small")
         ELSE IF new_size * Cardinality(H) * 100 <= SumSizes(H) * reduction
              THEN Verdict(FALSE, "suspiciously_small")
              ELSE IF new_size >= MinSize(H)
                   THEN Verdict(TRUE, "validated")
                   ELSE Verdict(FALSE, "below_historical_minimum")

check_size_consistency(dir, path, H, minSize, reduction) ==
    IF path \notin Ids(dir) THEN Verdict(FALSE, "missing")
    ELSE LET new_size == FileOf(dir, path).size IN
         IF H = {} THEN
              IF new_size >= minSize THEN Verdict(TRUE, "first_backup")
              ELSE Verdict(FALSE, "first_backup_too_small")
         ELSE LET n == Cardinality(H)
                  total == SumSizes(H)
              IN  \* new_size < avg_size * size_reduction_threshold
                  IF new_size * n * 100 < total * reduction
                  THEN Verdict(FALSE, "suspiciously_small")
                  ELSE IF new_size >= MinSize(H)
                       THEN Verdict(TRUE, "validated")
                       ELSE Verdict(FALSE, "below_historical_minimum")

validate_before_cleanup(dir, path, H, minSize, reduction) ==
    IF ~validate_backup_integrity(dir, path, minSize)
    THEN Verdict(FALSE, "integrity")
    ELSE check_size_consistency(dir, path, H, minSize, reduction)

(***************************************************************************)
(* MySQLDumpScheduler: retention                                           *)
(***************************************************************************)
\* files[self.max_copies:] of the list sorted by mtime, most recent first:
\* the sets of artifacts one run of _perform_cleanup may select.
\* files_to_delete with files[self.max_copies + 1:]
files_to_delete_off(dir, k) ==
    IF Cardinality(dir) > k
    THEN {dir \ K : K \in NewestN(dir, k + 1)}
    ELSE {{}}

files_to_delete(dir, k) ==
    IF Cardinality(dir) > k
    THEN {dir \ K : K \in NewestN(dir, k)}
    ELSE {{}}

(***************************************************************************)
(* MySQLDumpScheduler: the off-peak window                                 *)
(***************************************************************************)
\* is_night_time with "and" for the window that wraps past midnight
is_night_time_and(now, start, end) ==
    IF start > end
    THEN now >= start /\ now < end
    ELSE start <= now /\ now < end

is_night_time(now, start, end) ==
    IF start > end
    THEN now >= start \/ now < end
    ELSE start <= now /\ now < end

(***************************************************************************)
(* The state of one MySQLDumpScheduler, its validator, the schedule        *)
(* module's job list and the two files it works on, as one record.  Every  *)
(* method below maps a state to the set of states it may end in: the       *)
(* outcomes of the collaborators (MySQL, mysqldump, Telegram, the file     *)
(* system) are the choices.                                                *)
(***************************************************************************)
\* What one call did: the trace the properties read.
NoLast ==
    [op |-> "none",          \* the operation
     again |-> FALSE,        \* stop: the call before it was a stop as well
     chat |-> 0,             \* listen_for_new_users: the chat_id of the update
     probe |-> "none",       \* the caller's test_connection: none, ok, fail
     probes |-> 0,           \* the calls of test_connection
     modes |-> 0,            \* the mode-change notifications dispatched
     dump |-> "none",        \* create_dump: none, no_connection, nonzero, exception, ok
     candidate |-> 0,        \* the artifact create_dump wrote
     verdict |-> "none",     \* validate_before_cleanup: none, safe, unsafe
     msg |-> "none",         \* its diagnostic
     history |-> {},         \* the artifacts its average was taken over
     created |-> FALSE,      \* what create_dump returned
     raised |-> FALSE,       \* create_dump raised instead of returning
     cleanup |-> FALSE,      \* cleanup() was called
     retention |-> FALSE,    \* _perform_cleanup() was called
     selected |-> {},        \* files_to_delete
     deleted |-> {},         \* the artifacts os.remove removed
     refused |-> {},         \* the artifacts os.remove raised for
     alerts |-> <<>>,        \* the send_telegram_alert calls, in order
     saves |-> <<>>,         \* the save_subscribers calls: written or failed
     after_save |-> FALSE,   \* load_subscribers: the call before ended in a written save
     database |-> <<>>,      \* self.database of the scheduler that made the call
     welcomed |-> 0,         \* listen_for_new_users: the chat_id welcome_msg went to
     ret |-> FALSE]          \* what the call returned, if a boolean

\* the threads that run cycles: the one of run_scheduler, and the one
\* App.manual_dump starts
Threads == {"scheduler", "manual"}

\* A thread outside a cycle.  at: idle, dumped (mysqldump returned 0 and
\* dump_file is written, the validation is next), returned (create_dump has
\* returned, the retention step is next); candidate: its dump_file.
NoStep == [at |-> "idle", candidate |-> 0]

\* No listen_for_new_users thread.  at: none, sleep (time.sleep(2)), while (the
\* loop condition is next), try (the check before the request is next), get
\* (requests.get is next), request (requests.get is out), for (the check of
\* the next update is next), update (the update is being handled), backoff
\* (time.sleep(5)); updates: the
\* updates of data['result'] still to go through.  stopped: stop() or
\* quick_shutdown() was called while the thread was there; polls, backoffs: the
\* requests and the error sleeps it began after that; observed: it has read
\* the flags as off.  last_update_id: the local of that name; offset: the
\* params['offset'] of its last request; result: the update_ids of
\* data['result'] still to go through.
NoListener ==
    [at |-> "none", updates |-> 0, stopped |-> FALSE, polls |-> 0,
     backoffs |-> 0, observed |-> FALSE,
     last_update_id |-> 0, offset |-> 0, result |-> <<>>]

\* Telegram's side of getUpdates before the bot got a message.  arrived: the
\* updates 1..arrived exist; confirmed: those up to it are confirmed by a
\* request with a higher offset and are not given out again.  taken: per
\* update_id, the iterations of the for loop that began for it; raised: the
\* update_ids whose iteration raised.
NoInbound ==
    [arrived |-> 0, confirmed |-> 0,
     taken |-> [i \in 1..MaxEvents |-> 0], raised |-> {}]

St ==
    [files |-> files, clock |-> clock,
     min_size_threshold |-> min_size_threshold,
     size_reduction_threshold |-> size_reduction_threshold,
     max_copies |-> max_copies, security_enabled |-> security_enabled,
     running |-> running, telegram_enabled |-> telegram_enabled,
     auto_subscribe |-> auto_subscribe,
     telegram_subscribers |-> telegram_subscribers,
     subscribers_file |-> subscribers_file,
     stop_notification_sent |-> stop_notification_sent,
     night_mode |-> night_mode, night_start_time |-> night_start_time,
     night_end_time |-> night_end_time, current_time |-> current_time,
     jobs |-> jobs, runnable |-> runnable, thread_alive |-> thread_alive,
     listener_alive |-> listener_alive, startup_pending |-> startup_pending,
     stop_notices |-> stop_notices, in_cycle |-> in_cycle,
     unwritten |-> unwritten, listener |-> listener, stopping |-> stopping,
     cycle_at |-> cycle_at, rejected |-> rejected, quit_at |-> quit_at,
     inbound |-> inbound, last |-> last]

Becomes(t) ==
    /\ files' = t.files
    /\ clock' = t.clock
    /\ min_size_threshold' = t.min_size_threshold
    /\ size_reduction_threshold' = t.size_reduction_threshold
    /\ max_copies' = t.max_copies
    /\ security_enabled' = t.security_enabled
    /\ running' = t.running
    /\ telegram_enabled' = t.telegram_enabled
    /\ auto_subscribe' = t.auto_subscribe
    /\ telegram_subscribers' = t.telegram_subscribers
    /\ subscribers_file' = t.subscribers_file
    /\ stop_notification_sent' = t.stop_notification_sent
    /\ night_mode' = t.night_mode
    /\ night_start_time' = t.night_start_time
    /\ night_end_time' = t.night_end_time
    /\ current_time' = t.current_time
    /\ jobs' = t.jobs
    /\ runnable' = t.runnable
    /\ thread_alive' = t.thread_alive
    /\ listener_alive' = t.listener_alive
    /\ startup_pending' = t.startup_pending
    /\ stop_notices' = t.stop_notices
    /\ in_cycle' = t.in_cycle
    /\ unwritten' = t.unwritten
    /\ listener' = t.listener
    /\ stopping' = t.stopping
    /\ cycle_at' = t.cycle_at
    /\ rejected' = t.rejected
    /\ quit_at' = t.quit_at
    /\ inbound' = t.inbound
    /\ last' = t.last

Begin(s, op) ==
    [s EXCEPT !.last = [NoLast EXCEPT !.op = op,
                                      !.again = (op = "stop" /\ s.last.op = op)]]

\* bind: run m on every state of the set S
Then(S, m(_)) == UNION {m(s) : s \in S}

RECURSIVE SetToSeq(_)
SetToSeq(S) ==
    IF S = {} THEN <<>>
    ELSE LET x == CHOOSE y \in S : \A z \in S : y <= z
         IN <<x>> \o SetToSeq(S \ {x})

Range(q) == {q[i] : i \in 1..Len(q)}

(***************************************************************************)
(* Telegram: subscribers and alerts                                        *)
(***************************************************************************)
\* json.dump({'subscribers': list(self.telegram_subscribers), ...}): the write
\* replaces the file, or fails and is logged.
save_subscribers(s) ==
    { [s EXCEPT !.subscribers_file =
            [readable |-> TRUE, subscribers |-> SetToSeq(s.telegram_subscribers)],
                !.last.saves = Append(@, "written")],
      [s EXCEPT !.last.saves = Append(@, "failed")] }

\* load_subscribers that keeps the first entry of the list only
load_subscribers_first(s) ==
    IF s.subscribers_file.readable
    THEN [s EXCEPT !.telegram_subscribers =
                      IF s.subscribers_file.subscribers = <<>> THEN {}
                      ELSE {Head(s.subscribers_file.subscribers)}]
    ELSE [s EXCEPT !.telegram_subscribers = {}]

\* set(data.get('subscribers', [])) of the file json.load could read; the
\* empty set after an exception
load_subscribers(s) ==
    IF s.subscribers_file.readable
    THEN [s EXCEPT !.telegram_subscribers = Range(s.subscribers_file.subscribers)]
    ELSE [s EXCEPT !.telegram_subscribers = {}]

Alerted(s, kind, to, failed, ret) ==
    [s EXCEPT !.last.alerts =
        Append(@, [kind |-> kind, to |-> to, failed |-> failed, ret |-> ret])]

\* what requests.post to one chat does: answered 200, answered otherwise, raised
Deliveries == {"sent", "refused", "error"}

\* send_telegram_message: True when the post was answered 200; an exception
\* is logged and gives False.
send_telegram_message(delivery) == delivery = "sent"

\* send_telegram_alert without the removal of the chats that failed
send_telegram_alert_keep(s, kind) ==
    IF ~s.telegram_enabled THEN {Alerted(s, kind, {}, {}, FALSE)}
    ELSE IF s.telegram_subscribers = {} THEN {Alerted(s, kind, {}, {}, FALSE)}
    ELSE UNION {
           LET to == s.telegram_subscribers
               failed_chats == {c \in to : ~send_telegram_message(delivery[c])}
               success_count == Cardinality({c \in to : send_telegram_message(delivery[c])})
               s2 == IF failed_chats # {} THEN save_subscribers(s) ELSE {s}
           IN {Alerted(x, kind, to, failed_chats, success_count > 0) : x \in s2}
           : delivery \in [s.telegram_subscribers -> Deliveries] }

\* send_telegram_alert without "if not self.telegram_enabled"
send_telegram_alert_unguarded(s, kind) ==
    IF s.telegram_subscribers = {} THEN {Alerted(s, kind, {}, {}, FALSE)}
    ELSE UNION {
           LET to == s.telegram_subscribers
               failed_chats == {c \in to : ~send_telegram_message(delivery[c])}
               success_count == Cardinality({c \in to : send_telegram_message(delivery[c])})
               s1 == [s EXCEPT !.telegram_subscribers = @ \ failed_chats]
               s2 == IF failed_chats # {} THEN save_subscribers(s1) ELSE {s1}
           IN {Alerted(x, kind, to, failed_chats, success_count > 0) : x \in s2}
           : delivery \in [s.telegram_subscribers -> Deliveries] }

\* send_telegram_alert that returns True only when no delivery failed
send_telegram_alert_all(s, kind) ==
    IF ~s.telegram_enabled THEN {Alerted(s, kind, {}, {}, FALSE)}
    ELSE IF s.telegram_subscribers = {} THEN {Alerted(s, kind, {}, {}, FALSE)}
    ELSE UNION {
           LET to == s.telegram_subscribers
               failed_chats == {c \in to : ~send_telegram_message(delivery[c])}
               s1 == [s EXCEPT !.telegram_subscribers = @ \ failed_chats]
               s2 == IF failed_chats # {} THEN save_subscribers(s1) ELSE {s1}
           IN {Alerted(x, kind, to, failed_chats, failed_chats = {}) : x \in s2}
           : delivery \in [s.telegram_subscribers -> Deliveries] }

\* One delivery per chat of list(self.telegram_subscribers); failed_chats: those
\* send_telegram_message returned False for.  The alert is recorded with the
\* chats it went to, those it failed for and the boolean it returns.
send_telegram_alert(s, kind) ==
    IF ~s.telegram_enabled THEN {Alerted(s, kind, {}, {}, FALSE)}
    ELSE IF s.telegram_subscribers = {} THEN {Alerted(s, kind, {}, {}, FALSE)}
    ELSE UNION {
           LET to == s.telegram_subscribers
               failed_chats == {c \in to : ~send_telegram_message(delivery[c])}
               success_count == Cardinality({c \in to : send_telegram_message(delivery[c])})
               s1 == [s EXCEPT !.telegram_subscribers = @ \ failed_chats]
               s2 == IF failed_chats # {} THEN save_subscribers(s1) ELSE {s1}
           IN {Alerted(x, kind, to, failed_chats, success_count > 0) : x \in s2}
           : delivery \in [s.telegram_subscribers -> Deliveries] }

(***************************************************************************)
(* create_dump, cleanup                                                    *)
(***************************************************************************)
\* What mysqldump leaves in dump_file when it returns 0: a new path, with the
\* most recent mtime of the directory.
DumpFile(s, size, content) ==
    [id |-> NewId(s.clock), mtime |-> MaxMtime + s.clock + 1,
     size |-> size, content |-> content]

\* validate_dump without the alert of "if not is_safe"
validate_dump_quiet(s, f) ==
    UNION {
      LET v == validate_before_cleanup(s.files, f.id, H, s.min_size_threshold,
                                       s.size_reduction_threshold)
          s1 == [s EXCEPT !.last.verdict = IF v.safe THEN "safe" ELSE "unsafe",
                          !.last.msg = v.msg, !.last.history = Ids(H)]
      IN IF ~v.safe THEN {s1} ELSE {[s1 EXCEPT !.last.created = TRUE]}
      : H \in Histories(s.files, f.id) }

\* validate_dump that removes the unsafe dump when its alert reached nobody
validate_dump_unsent(s, f) ==
    UNION {
      LET v == validate_before_cleanup(s.files, f.id, H, s.min_size_threshold,
                                       s.size_reduction_threshold)
          s1 == [s EXCEPT !.last.verdict = IF v.safe THEN "safe" ELSE "unsafe",
                          !.last.msg = v.msg, !.last.history = Ids(H)]
      IN IF ~v.safe
         THEN {IF x.last.alerts[Len(x.last.alerts)].ret THEN x
               ELSE [x EXCEPT !.files = @ \ {f}]
                 : x \in send_telegram_alert(s1, "critical")}
         ELSE {[s1 EXCEPT !.last.created = TRUE]}
      : H \in Histories(s.files, f.id) }

\* the branch "if self.security_enabled" of create_dump, after a dump that
\* returned 0 and is in the directory as f
validate_dump(s, f) ==
    UNION {
      LET v == validate_before_cleanup(s.files, f.id, H, s.min_size_threshold,
                                       s.size_reduction_threshold)
          s1 == [s EXCEPT !.last.verdict = IF v.safe THEN "safe" ELSE "unsafe",
                          !.last.msg = v.msg, !.last.history = Ids(H)]
      IN IF ~v.safe
         THEN send_telegram_alert(s1, "critical")
         ELSE {[s1 EXCEPT !.last.created = TRUE]}
      : H \in Histories(s.files, f.id) }

\* What open(dump_file, 'w') leaves when mysqldump wrote nothing to it.
PartialFile(s) == DumpFile(s, 0, "nosql")

\* The handler "except Exception" of create_dump, entered with dump_file in
\* the directory (there) or not: the alert when Telegram is on, then
\* os.remove(dump_file), which removes the file and lets create_dump return
\* False, or (stuck) raises out of the handler and leaves the file.
dump_failed(s, there, stuck) ==
    LET alerted == IF s.telegram_enabled THEN send_telegram_alert(s, "error") ELSE {s}
    IN alerted
       \cup
       (IF there /\ stuck
        THEN {[x EXCEPT !.files = @ \cup {PartialFile(s)}, !.clock = @ + 1,
                        !.last.candidate = PartialFile(s).id, !.last.raised = TRUE]
                : x \in alerted}
        ELSE {})

\* written: the <<size, content>> mysqldump may leave in dump_file when it
\* returns 0; stuck: os.remove(dump_file) may fail
create_dump(s, written, stuck) ==
    LET s0 == [s EXCEPT !.last.probes = @ + 1] IN
    \* if not self.test_connection(): return False
    {[s0 EXCEPT !.last.dump = "no_connection"]}
    \cup
    \* result.returncode != 0: os.remove(dump_file) removes the file, or raises
    \* into the handler
    {[s0 EXCEPT !.last.dump = "nonzero"]}
    \cup
    dump_failed([s0 EXCEPT !.last.dump = "nonzero"], TRUE, stuck)
    \cup
    \* an exception of open (no file yet) or of subprocess.run (the file is there)
    dump_failed([s0 EXCEPT !.last.dump = "exception"], FALSE, stuck)
    \cup
    dump_failed([s0 EXCEPT !.last.dump = "exception"], TRUE, stuck)
    \cup
    UNION {
      LET f == DumpFile(s0, w[1], w[2])
          s1 == [s0 EXCEPT !.files = @ \cup {f}, !.clock = @ + 1,
                           !.last.dump = "ok", !.last.candidate = f.id]
      IN IF s0.security_enabled
         THEN validate_dump(s1, f)
         ELSE {[s1 EXCEPT !.last.created = TRUE]}
      : w \in written }

\* _perform_cleanup whose loop ends at the first os.remove that raises: the
\* files after it in files_to_delete (older ones) stay
perform_cleanup_aborts(s) ==
    UNION {
      { LET removed == {f \in D \ refused : \A r \in refused : f.mtime > r.mtime}
        IN [s EXCEPT !.files = @ \ removed,
                     !.last.retention = TRUE,
                     !.last.selected = Ids(D),
                     !.last.refused = Ids(refused),
                     !.last.deleted = Ids(removed)]
        : refused \in SUBSET D }
      : D \in files_to_delete(s.files, s.max_copies) }

\* os.remove is called for every file of files_to_delete; refused: those it
\* raises for, each caught and logged inside the loop.
perform_cleanup(s) ==
    UNION {
      { LET removed == D \ refused
        IN [s EXCEPT !.files = @ \ removed,
                     !.last.retention = TRUE,
                     !.last.selected = Ids(D),
                     !.last.refused = Ids(refused),
                     !.last.deleted = Ids(removed)]
        : refused \in SUBSET D }
      : D \in files_to_delete(s.files, s.max_copies) }

cleanup(s) ==
    LET s1 == [s EXCEPT !.last.cleanup = TRUE] IN
    IF ~s1.security_enabled THEN perform_cleanup(s1)
    ELSE IF s1.files = {} THEN {s1}
    ELSE perform_cleanup(s1)

(***************************************************************************)
(* Day and night modes                                                     *)
(***************************************************************************)
Job(func, interval) == [func |-> func, interval |-> interval]

\* rearm without schedule.clear()
rearm_layered(s, interval) ==
    [s EXCEPT !.jobs = Append(@, Job("scheduled_task", interval))]

\* schedule.clear(); schedule.every(n).minutes.do(self.scheduled_task)
rearm(s, interval) == [s EXCEPT !.jobs = <<Job("scheduled_task", interval)>>]

enter_night_mode(s) ==
    send_telegram_alert(rearm([s EXCEPT !.night_mode = TRUE, !.last.modes = @ + 1],
                              night_interval),
                        "night_start")

exit_night_mode(s) ==
    send_telegram_alert(rearm([s EXCEPT !.night_mode = FALSE, !.last.modes = @ + 1],
                              normal_interval),
                        "night_end")

\* check_night_mode_transition without "and not self.night_mode"
check_night_mode_transition_always(s) ==
    LET is_night == is_night_time(s.current_time, s.night_start_time, s.night_end_time)
    IN IF is_night THEN enter_night_mode(s)
       ELSE IF s.night_mode THEN exit_night_mode(s)
       ELSE {s}

check_night_mode_transition(s) ==
    LET is_night == is_night_time(s.current_time, s.night_start_time, s.night_end_time)
    IN IF is_night /\ ~s.night_mode THEN enter_night_mode(s)
       ELSE IF ~is_night /\ s.night_mode THEN exit_night_mode(s)
       ELSE {s}

(***************************************************************************)
(* One cycle                                                               *)
(***************************************************************************)
\* if self.test_connection(): self.create_dump()
probe_and_dump(s, written, stuck) ==
    {[s EXCEPT !.last.probe = "fail", !.last.probes = @ + 1]}
    \cup
    LET dump(x) == create_dump(x, written, stuck)
    IN Then({[s EXCEPT !.last.probe = "ok", !.last.probes = @ + 1]}, dump)

\* goes_on without the "if self.test_connection()"
goes_on_always(x) == ~x.last.raised

\* The cycle goes on to the retention step unless the probe failed or
\* create_dump raised: scheduled_task logs the exception, the thread of
\* _manual_dump_task dies of it.
goes_on(x) == x.last.probe = "ok" /\ ~x.last.raised

\* scheduled_task with no retention step when the validation is off
scheduled_task_retains(s, written, stuck) ==
    LET cycle(x) == probe_and_dump(x, written, stuck)
        clean(x) == IF ~goes_on(x) THEN {x}
                    ELSE IF x.security_enabled THEN cleanup(x)
                    ELSE {x}
    IN Then(Then(check_night_mode_transition(Begin(s, "scheduled_task")), cycle), clean)

scheduled_task(s, written, stuck) ==
    LET cycle(x) == probe_and_dump(x, written, stuck)
        \* if self.security_enabled: self.cleanup() else: self._perform_cleanup()
        clean(x) == IF ~goes_on(x) THEN {x}
                    ELSE IF x.security_enabled THEN cleanup(x)
                    ELSE perform_cleanup(x)
    IN Then(Then(check_night_mode_transition(Begin(s, "scheduled_task")), cycle), clean)

\* the body of scheduled_task after its mode check
backup_steps(s, written, stuck) ==
    LET clean(x) == IF ~goes_on(x) THEN {x}
                    ELSE IF x.security_enabled THEN cleanup(x)
                    ELSE perform_cleanup(x)
    IN Then(probe_and_dump(s, written, stuck), clean)

manual_dump_task(s, written, stuck) ==
    \* self.scheduler.cleanup()
    LET clean(x) == IF ~goes_on(x) THEN {x} ELSE cleanup(x)
    IN Then(probe_and_dump(Begin(s, "manual_dump"), written, stuck), clean)

(***************************************************************************)
(* start, stop, quick_shutdown                                             *)
(***************************************************************************)
start(s) ==
    LET s1 == [Begin(s, "start") EXCEPT !.running = TRUE, !.jobs = <<>>]
        armed == IF is_night_time(s1.current_time, s1.night_start_time, s1.night_end_time)
                 THEN enter_night_mode(s1)
                 ELSE {[s1 EXCEPT !.jobs =
                            Append(@, Job("scheduled_task", normal_interval))]}
    IN { [x EXCEPT !.jobs = Append(@, Job("check_night_mode_transition", check_interval)),
                   !.thread_alive = TRUE,
                   !.listener_alive = @ \/ (x.telegram_enabled /\ x.auto_subscribe),
                   !.startup_pending = @ \/ x.telegram_enabled]
         : x \in armed }

\* stop without the last "self.telegram_enabled = False"
stop_keeps_enabled(s) ==
    LET old_telegram_state == s.telegram_enabled
        s1 == [Begin(s, "stop") EXCEPT !.telegram_enabled = FALSE,
                                       !.running = FALSE, !.jobs = <<>>]
    IN IF old_telegram_state /\ ~s.stop_notification_sent
       THEN send_telegram_alert([s1 EXCEPT !.stop_notification_sent = TRUE,
                                           !.telegram_enabled = TRUE,
                                           !.stop_notices = Min2(@ + 1, 2)],
                                "shutdown")
       ELSE {s1}

stop(s) ==
    LET old_telegram_state == s.telegram_enabled
        s1 == [Begin(s, "stop") EXCEPT !.telegram_enabled = FALSE,
                                       !.running = FALSE, !.jobs = <<>>]
    IN IF old_telegram_state /\ ~s.stop_notification_sent
       THEN LET s2 == [s1 EXCEPT !.stop_notification_sent = TRUE,
                                 !.telegram_enabled = TRUE,
                                 !.stop_notices = Min2(@ + 1, 2)]
            IN {[x EXCEPT !.telegram_enabled = FALSE]
                  : x \in send_telegram_alert(s2, "shutdown")}
       ELSE {s1}

\* quick_shutdown without "self.telegram_enabled = False"
quick_shutdown_keeps_enabled(s) ==
    {[Begin(s, "quick_shutdown") EXCEPT !.running = FALSE, !.jobs = <<>>]}

quick_shutdown(s) ==
    {[Begin(s, "quick_shutdown") EXCEPT !.telegram_enabled = FALSE,
                                        !.running = FALSE, !.jobs = <<>>]}

send_startup_notification(s) ==
    send_telegram_alert([Begin(s, "startup_notification")
                            EXCEPT !.startup_pending = FALSE], "startup")

enable_security_validation(s, enabled) ==
    {[Begin(s, "enable_security_validation") EXCEPT !.security_enabled = enabled]}

set_security_thresholds(s, min_size_kb, size_reduction_percent) ==
    {[Begin(s, "set_security_thresholds")
        EXCEPT !.min_size_threshold = min_size_kb * KB,
               !.size_reduction_threshold = 100 - size_reduction_percent]}

(***************************************************************************)
(* run_scheduler and schedule.run_pending                                  *)
(***************************************************************************)
\* run_pending sorts the jobs that are due and then runs them one by one; a
\* job that is cleared or a stop() that comes after the sort does not take a
\* job out of the sorted list.  Which jobs are due, and in which order of
\* next_run, is the clock's choice.
Due(js) ==
    {q \in UNION {[1..n -> Range(js)] : n \in 1..Len(js)} :
        \A i, j \in 1..Len(q) : i # j => q[i] # q[j]}

\* handle_update without "if chat_id not in self.telegram_subscribers"
handle_update_always(s, chat_id) ==
    LET s0 == [Begin(s, "listen_for_new_users") EXCEPT !.last.chat = chat_id] IN
    {[x EXCEPT !.last.ret = chat_id \notin s.telegram_subscribers,
               !.last.welcomed = chat_id]
       : x \in save_subscribers([s0 EXCEPT !.telegram_subscribers = @ \cup {chat_id}])}

\* handle_update that takes the chat out again when the write fails
handle_update_rollback(s, chat_id) ==
    LET s0 == [Begin(s, "listen_for_new_users") EXCEPT !.last.chat = chat_id] IN
    IF chat_id \notin s0.telegram_subscribers
    THEN {IF x.last.saves = <<"failed">>
          THEN [x EXCEPT !.telegram_subscribers = @ \ {chat_id}]
          ELSE [x EXCEPT !.last.ret = TRUE]
            : x \in save_subscribers([s0 EXCEPT !.telegram_subscribers = @ \cup {chat_id}])}
    ELSE {s0}

\* handle_update without "self.save_subscribers()"
handle_update_unsaved(s, chat_id) ==
    LET s0 == [Begin(s, "listen_for_new_users") EXCEPT !.last.chat = chat_id] IN
    IF chat_id \notin s0.telegram_subscribers
    THEN {[s0 EXCEPT !.telegram_subscribers = @ \cup {chat_id}, !.last.ret = TRUE]}
    ELSE {s0}

\* listen_for_new_users: one update with a message from chat_id
handle_update(s, chat_id) ==
    LET s0 == [Begin(s, "listen_for_new_users") EXCEPT !.last.chat = chat_id] IN
    IF chat_id \notin s0.telegram_subscribers
    THEN {[x EXCEPT !.last.ret = TRUE, !.last.welcomed = chat_id]
            : x \in save_subscribers([s0 EXCEPT !.telegram_subscribers = @ \cup {chat_id}])}
    ELSE {s0}

(***************************************************************************)
(* The state after MySQLDumpScheduler(config, dump_dir, interval, logger,  *)
(* max_copies, telegram_config): the directory holds dir, the subscribers  *)
(* file lists S, telegram_config is given (configured) or not.             *)
(***************************************************************************)
Constructed(dir, copies, configured, auto, S) ==
    /\ files = dir
    /\ clock = 0
    /\ max_copies = copies
    /\ security_enabled = TRUE
    /\ running = FALSE
    /\ telegram_enabled = configured
    /\ auto_subscribe = auto
    /\ subscribers_file = [readable |-> TRUE, subscribers |-> SetToSeq(S)]
    /\ telegram_subscribers = IF configured THEN S ELSE {}
    /\ stop_notification_sent = FALSE
    /\ night_mode = FALSE
    /\ jobs = <<>>
    /\ runnable = <<>>
    /\ thread_alive = FALSE
    /\ listener_alive = FALSE
    /\ startup_pending = FALSE
    /\ stop_notices = 0
    /\ in_cycle = {}
    /\ unwritten = {}
    /\ listener = NoListener
    /\ stopping = FALSE
    /\ cycle_at = [th \in Threads |-> NoStep]
    /\ rejected = {}
    /\ quit_at = "idle"
    /\ inbound = NoInbound
    /\ last = NoLast

\* BackupSecurityValidator.__init__
DefaultThresholds ==
    /\ min_size_threshold = DefaultMinSize
    /\ size_reduction_threshold = DefaultReduction

\* the window of __init__; the run starts at midnight
DefaultWindow ==
    /\ night_start_time = NightStart
    /\ night_end_time = NightEnd
    /\ current_time = 0

(***************************************************************************)
(* Actions of the scheduler specifications.  They keep of the trace of a   *)
(* call only which call it was.                                            *)
(***************************************************************************)
Seen(t) ==
    [t EXCEPT !.last = [NoLast EXCEPT !.op = t.last.op, !.again = t.last.again,
                                      !.modes = t.last.modes]]

\* App.start_scheduler starts a scheduler that is not running
Start ==
    /\ ~running
    /\ \E t \in start(St) : Becomes(Seen(t))

Stop == \E t \in stop(St) : Becomes(Seen(t))

QuickShutdown == \E t \in quick_shutdown(St) : Becomes(Seen(t))

StartupNotification ==
    /\ startup_pending
    /\ \E t \in send_startup_notification(St) : Becomes(Seen(t))

\* the time of day after step more minutes
later(s, step) ==
    {[Begin(s, "tick") EXCEPT !.current_time = (@ + step) % MinutesPerDay]}

Tick == \E t \in later(St, MinutesPerDay \div DayParts) : Becomes(t)

\* while self.running: schedule.run_pending()
RunPending ==
    /\ thread_alive /\ running /\ runnable = <<>>
    /\ \E q \in Due(jobs) :
         Becomes([Begin(St, "run_pending") EXCEPT !.runnable = q])

\* the successful dumps the scheduler specifications let mysqldump write; they
\* let os.remove(dump_file) succeed
SchedulerWrites ==
    IF clock < SchedulerDumps THEN {<<MaxSizeKb * KB, "sql">>} ELSE {}

RunScheduledTask ==
    /\ runnable # <<>>
    /\ Head(runnable).func = "scheduled_task"
    /\ \E t \in scheduled_task([St EXCEPT !.runnable = Tail(@)], SchedulerWrites, FALSE) :
         Becomes(Seen(t))

RunModeCheck ==
    /\ runnable # <<>>
    /\ Head(runnable).func = "check_night_mode_transition"
    /\ \E t \in check_night_mode_transition(
                  Begin([St EXCEPT !.runnable = Tail(@)], "check_night_mode_transition")) :
         Becomes(Seen(t))

\* the loop of run_scheduler sees running = False
ThreadExit ==
    /\ thread_alive /\ ~running /\ runnable = <<>>
    /\ Becomes([Begin(St, "thread_exit") EXCEPT !.thread_alive = FALSE])

\* App.manual_dump: needs a scheduler, started or not
ManualDump ==
    /\ clock < SchedulerDumps
    /\ \E t \in manual_dump_task(St, SchedulerWrites, FALSE) : Becomes(Seen(t))

ListenerUpdate ==
    /\ listener_alive /\ telegram_enabled /\ running
    /\ \E c \in Chats : \E t \in handle_update(St, c) : Becomes(t)

ListenerExit ==
    /\ listener_alive /\ ~(telegram_enabled /\ running)
    /\ Becomes([Begin(St, "listener_exit") EXCEPT !.listener_alive = FALSE])

(***************************************************************************)
(* Spec: one MySQLDumpScheduler from its construction on: the trigger, the *)
(* modes, start and stop.                                                  *)
(***************************************************************************)
\* the subscribers file lists nobody, or one chat
Init ==
    \E configured \in BOOLEAN : \E S \in {{}, {c \in Chats : \A d \in Chats : c <= d}} :
      \E auto \in (IF configured THEN BOOLEAN ELSE {TRUE}) :
        /\ Constructed({}, 0, configured, auto, S)
        /\ DefaultThresholds
        /\ DefaultWindow

Next ==
    \/ Start
    \/ Stop
    \/ QuickShutdown
    \/ StartupNotification
    \/ Tick
    \/ RunPending
    \/ RunScheduledTask
    \/ RunModeCheck
    \/ ThreadExit
    \/ ManualDump

Spec == Init /\ [][Next]_vars

(***************************************************************************)
(* SpecTelegram: the subscribers of one MySQLDumpScheduler: the inbound    *)
(* listener adds them, the alerts of start, stop, of a mode change and of  *)
(* a failing dump remove those a delivery fails for.                       *)
(***************************************************************************)
\* what mysqldump writes in the cycles of this specification: an empty dump,
\* while the run has dumps left
EmptyWrites == IF clock < MaxDumps THEN {<<0, "sql">>} ELSE {}

\* a manual dump that fails, or ends in a dump that does not pass
FailingDump == \E t \in manual_dump_task(St, EmptyWrites, FALSE) : Becomes(t)

\* the same in a cycle the trigger fires
FailingTask ==
    /\ thread_alive
    /\ \E i \in DOMAIN jobs : jobs[i].func = "scheduled_task"
    /\ \E t \in scheduled_task(St, EmptyWrites, FALSE) : Becomes(t)

StopT == \E t \in stop(St) : Becomes(t)

QuickShutdownT == \E t \in quick_shutdown(St) : Becomes(t)

StartT ==
    /\ ~running
    /\ \E t \in start(St) : Becomes(t)

StartupNotificationT ==
    /\ startup_pending
    /\ \E t \in send_startup_notification(St) : Becomes(t)

NextTelegram ==
    \/ StartT
    \/ StopT
    \/ QuickShutdownT
    \/ StartupNotificationT
    \/ ThreadExit
    \/ ListenerUpdate
    \/ ListenerExit
    \/ FailingDump
    \/ FailingTask

\* the subscribers file lists any of the chats
InitTelegram ==
    \E configured \in BOOLEAN : \E S \in SUBSET Chats :
      \E auto \in (IF configured THEN BOOLEAN ELSE {TRUE}) :
        /\ Constructed({}, 0, configured, auto, S)
        /\ DefaultThresholds
        /\ DefaultWindow

SpecTelegram == InitTelegram /\ [][NextTelegram]_vars

(***************************************************************************)
(* SpecCycle: backup cycles, fired by the trigger or run by hand, on a     *)
(* directory that holds some good backups at the start; the subscribers    *)
(* file lists nobody, or one chat.                                         *)
(***************************************************************************)
\* what mysqldump may write in a cycle: nothing, most of, or all of the database
CycleSizes == {0, (MaxSizeKb - 1) * KB, MaxSizeKb * KB}
CycleWrites == (CycleSizes \X {"sql"}) \cup {<<MaxSizeKb * KB, "nosql">>}

\* n good backups, one after the other
GoodBackups(n) ==
    {[id |-> i, mtime |-> i, size |-> MaxSizeKb * KB, content |-> "sql"] : i \in 1..n}

InitCycle ==
    \E n \in 0..MaxMtime : \E copies \in 0..MaxCopies :
      \E configured \in BOOLEAN : \E S \in {{}, {c \in Chats : \A d \in Chats : c <= d}} :
        /\ Constructed(GoodBackups(n), copies, configured, TRUE, S)
        /\ DefaultThresholds
        /\ DefaultWindow

\* a run has MaxDumps cycles in which mysqldump may succeed
ScheduledCycle ==
    /\ clock < MaxDumps
    /\ \E t \in scheduled_task(St, CycleWrites, TRUE) : Becomes(t)

ManualCycle ==
    /\ clock < MaxDumps
    /\ \E t \in manual_dump_task(St, CycleWrites, TRUE) : Becomes(t)

EnableSecurityValidation ==
    \E b \in BOOLEAN : \E t \in enable_security_validation(St, b) : Becomes(t)

NextCycle ==
    \/ ScheduledCycle
    \/ ManualCycle
    \/ EnableSecurityValidation

SpecCycle == InitCycle /\ [][NextCycle]_vars

(***************************************************************************)
(* SpecOverlap: the scheduler thread and the thread of a manual dump, each *)
(* entering a cycle and, later, leaving it with the cycle done.            *)
(***************************************************************************)
\* what mysqldump may write in a cycle that ends now
OverlapWrites == IF clock < MaxDumps THEN CycleWrites ELSE {}

\* run_pending calls scheduled_task: the scheduler thread runs its jobs one
\* after the other, so it is in one cycle at most
EnterScheduled ==
    /\ "scheduler" \notin in_cycle
    /\ \E t \in {[Begin(St, "run_pending") EXCEPT !.in_cycle = @ \cup {"scheduler"}]} :
         Becomes(t)

\* App.manual_dump starts a thread on _manual_dump_task, whatever the others do
EnterManual ==
    /\ "manual" \notin in_cycle
    /\ \E t \in {[Begin(St, "manual_dump_start") EXCEPT !.in_cycle = @ \cup {"manual"}]} :
         Becomes(t)

LeaveScheduled ==
    /\ "scheduler" \in in_cycle
    /\ \E t \in scheduled_task(St, OverlapWrites, clock < MaxDumps) :
         Becomes([t EXCEPT !.in_cycle = @ \ {"scheduler"}])

LeaveManual ==
    /\ "manual" \in in_cycle
    /\ \E t \in manual_dump_task(St, OverlapWrites, clock < MaxDumps) :
         Becomes([t EXCEPT !.in_cycle = @ \ {"manual"}])

NextOverlap ==
    \/ EnterScheduled
    \/ EnterManual
    \/ LeaveScheduled
    \/ LeaveManual

SpecOverlap == InitCycle /\ [][NextOverlap]_vars

(***************************************************************************)
(* SpecLoop: the thread of run_scheduler, with the backup job as two       *)
(* steps: scheduled_task is entered, and later returns.  Between the two   *)
(* the thread is inside the call, and the time of day goes on.             *)
(***************************************************************************)
\* schedule.run_pending(), called by the loop when it is not inside a job
PendingInLoop ==
    /\ "scheduler" \notin in_cycle
    /\ RunPending

\* run_pending calls the mode check
ModeCheckInLoop ==
    /\ "scheduler" \notin in_cycle
    /\ RunModeCheck

\* run_pending calls scheduled_task: the mode check at its head is made, then
\* the thread waits in subprocess.run for mysqldump
TaskBegins ==
    /\ "scheduler" \notin in_cycle
    /\ runnable # <<>>
    /\ Head(runnable).func = "scheduled_task"
    /\ \E t \in check_night_mode_transition(
                  Begin([St EXCEPT !.runnable = Tail(@)], "scheduled_task")) :
         Becomes(Seen([t EXCEPT !.in_cycle = @ \cup {"scheduler"}]))

\* mysqldump is over: the rest of scheduled_task, and the return to run_pending
TaskEnds ==
    /\ "scheduler" \in in_cycle
    /\ \E t \in backup_steps(St, SchedulerWrites, FALSE) :
         Becomes(Seen([t EXCEPT !.in_cycle = @ \ {"scheduler"},
                               !.last.op = "scheduled_task"]))

NextLoop ==
    \/ Start
    \/ Tick
    \/ PendingInLoop
    \/ ModeCheckInLoop
    \/ TaskBegins
    \/ TaskEnds

SpecLoop == Init /\ [][NextLoop]_vars

(***************************************************************************)
(* SpecSubscribers: the listener thread and a thread inside                *)
(* send_telegram_alert, each changing telegram_subscribers and saving it.  *)
(* save_subscribers is two steps: it builds the list of the subscribers,   *)
(* then opens the file and writes the list.  The writes succeed.           *)
(***************************************************************************)
\* data = {'subscribers': list(self.telegram_subscribers), ...}, built by thread
Built(s, thread) ==
    [s EXCEPT !.unwritten =
        @ \cup {[by |-> thread, subscribers |-> SetToSeq(s.telegram_subscribers)]}]

\* the listener adds the chat of an update and builds the list to save
ListenerAdds ==
    /\ listener_alive /\ telegram_enabled /\ running
    /\ \A u \in unwritten : u.by # "listener"
    /\ \E c \in Chats \ telegram_subscribers :
         \E t \in {Built([Begin(St, "listen_for_new_users")
                              EXCEPT !.telegram_subscribers = @ \cup {c},
                                     !.last.chat = c, !.last.ret = TRUE],
                          "listener")} :
           Becomes(t)

\* send_telegram_alert removes the chats its deliveries failed for and builds
\* the list to save
DispatcherRemoves ==
    /\ telegram_enabled /\ running
    /\ \A u \in unwritten : u.by # "dispatcher"
    /\ \E failed_chats \in SUBSET telegram_subscribers \ {{}} :
         \E t \in {Built([Begin(St, "send_telegram_alert")
                              EXCEPT !.telegram_subscribers = @ \ failed_chats],
                          "dispatcher")} :
           Becomes(t)

\* with open(self.subscribers_file, 'w') as f: json.dump(data, f)
dump_built(s, u) ==
    {[s EXCEPT !.subscribers_file = [readable |-> TRUE, subscribers |-> u.subscribers],
               !.unwritten = @ \ {u},
               !.last.saves = Append(@, "written")]}

ListenerWrites ==
    \E u \in unwritten :
      /\ u.by = "listener"
      /\ \E t \in dump_built(St, u) : Becomes(t)

DispatcherWrites ==
    \E u \in unwritten :
      /\ u.by = "dispatcher"
      /\ \E t \in dump_built(St, u) : Becomes(t)

\* a scheduler constructed with a telegram_config: the subscribers are those
\* the file lists
InitSubscribers ==
    \E S \in SUBSET Chats :
      /\ Constructed({}, 0, TRUE, TRUE, S)
      /\ DefaultThresholds
      /\ DefaultWindow

\* start(), before the two threads run
StartFirst ==
    /\ last.op = "none"
    /\ StartT

NextSubscribers ==
    \/ StartFirst
    \/ ListenerAdds
    \/ DispatcherRemoves
    \/ ListenerWrites
    \/ DispatcherWrites

SpecSubscribers == InitSubscribers /\ [][NextSubscribers]_vars

(***************************************************************************)
(* SpecValidate: validate_before_cleanup on a drawn directory: some prior  *)
(* artifacts and one candidate, under drawn thresholds.                    *)
(***************************************************************************)
\* the candidate: any size and content, written after the others
Candidates ==
    {[id |-> NewId(0), mtime |-> MaxMtime + 1, size |-> sz, content |-> c]
       : <<sz, c>> \in Sizes \X Contents}

\* the prior artifacts: small or large, of the oldest or the newest mtime
PriorKinds == SetToSeq2(PriorSizes \X {1, MaxMtime})

InitValidate ==
    \E c \in KindCounts(PriorKinds) :
      \E cand \in {{}} \cup {{f} : f \in Candidates} :
      /\ Constructed(Directory(PriorKinds, c) \cup cand, 0, FALSE, TRUE, {})
      /\ DefaultThresholds
      /\ DefaultWindow

\* ValidateCall with a validator that removes the candidate it turns down
ValidateCall_removes ==
    \E H \in Histories(files, NewId(0)) :
      LET v == validate_before_cleanup(files, NewId(0), H, min_size_threshold,
                                       size_reduction_threshold)
      IN Becomes([Begin(St, "validate_before_cleanup") EXCEPT
                    !.files = IF v.safe THEN @ ELSE {f \in @ : f.id # NewId(0)},
                    !.last.candidate = NewId(0),
                    !.last.verdict = IF v.safe THEN "safe" ELSE "unsafe",
                    !.last.msg = v.msg,
                    !.last.history = Ids(H),
                    !.last.ret = v.safe])

\* validate_before_cleanup(dump_file, dump_dir, database)
ValidateCall ==
    \E H \in Histories(files, NewId(0)) :
      LET v == validate_before_cleanup(files, NewId(0), H, min_size_threshold,
                                       size_reduction_threshold)
      IN Becomes([Begin(St, "validate_before_cleanup") EXCEPT
                    !.last.candidate = NewId(0),
                    !.last.verdict = IF v.safe THEN "safe" ELSE "unsafe",
                    !.last.msg = v.msg,
                    !.last.history = Ids(H),
                    !.last.ret = v.safe])

ReductionPercents == {20, 50}

\* the thresholds are configured on the new scheduler, before its first cycle
ConfigureSecurityThresholds ==
    /\ last.op = "none"
    /\ \E kb \in 1..MaxMinSizeKb : \E percent \in ReductionPercents :
         \E t \in set_security_thresholds(St, kb, percent) : Becomes(t)

NextValidate ==
    \/ ValidateCall
    \/ ConfigureSecurityThresholds

SpecValidate == InitValidate /\ [][NextValidate]_vars

(***************************************************************************)
(* SpecRetention: the retention step on a drawn directory.                 *)
(***************************************************************************)
InitRetention ==
    \E c \in KindCounts(Kinds({MaxSizeKb * KB})) : \E copies \in 0..MaxCopies :
      /\ Constructed(Directory(Kinds({MaxSizeKb * KB}), c), copies, FALSE, TRUE, {})
      /\ DefaultThresholds
      /\ DefaultWindow

PerformCleanup ==
    \E t \in perform_cleanup(Begin(St, "perform_cleanup")) : Becomes(t)

Cleanup ==
    \E t \in cleanup(Begin(St, "cleanup")) : Becomes(t)

NextRetention ==
    \/ PerformCleanup
    \/ Cleanup

SpecRetention == InitRetention /\ [][NextRetention]_vars

(***************************************************************************)
(* SpecNight: is_night_time for drawn windows and times of day.            *)
(***************************************************************************)
\* the times of day of the grid
Times == {k * (MinutesPerDay \div TimeSlots) : k \in 0..(TimeSlots - 1)}

\* the ends of the drawn windows
WindowEnds ==
    {NightStart, NightEnd}
      \cup {k * (MinutesPerDay \div WindowSlots) : k \in 0..(WindowSlots - 1)}

InitNight ==
    /\ Constructed({}, 0, FALSE, TRUE, {})
    /\ DefaultThresholds
    /\ night_start_time \in WindowEnds
    /\ night_end_time \in WindowEnds
    /\ current_time \in Times

IsNightTime ==
    \E t \in {[Begin(St, "is_night_time") EXCEPT
                 !.last.ret = is_night_time(current_time, night_start_time,
                                            night_end_time)]} : Becomes(t)

NightTick == \E t \in later(St, MinutesPerDay \div TimeSlots) : Becomes(t)

NextNight ==
    \/ IsNightTime
    \/ NightTick

SpecNight == InitNight /\ [][NextNight]_vars

(***************************************************************************)
(* SpecListener: the listen_for_new_users thread step by step, from one    *)
(* read of the flags or one blocking call to the next, beside the thread   *)
(* that calls start, stop and quick_shutdown.  stop() is two steps, before *)
(* and after its send_telegram_alert, with telegram_enabled on in between. *)
(* The thread is scheduled and each of its blocking calls has a timeout    *)
(* (requests.get 15 s, requests.post 10 s) or is a sleep: weak fairness on *)
(* its steps.                                                              *)
(***************************************************************************)
\* the updates one answer of getUpdates holds, at most
MaxUpdates == 2

\* the flags read as "self.running" alone
listening_running(s) == s.running

\* "self.telegram_enabled and self.running" of the while, and the negation of
\* "not self.telegram_enabled or not self.running" of the two checks
listening(s) == s.telegram_enabled /\ s.running

\* the while condition is false, break, or return: the thread is over
listener_ends(s) ==
    [s EXCEPT !.listener_alive = FALSE, !.listener.at = "none",
              !.listener.updates = 0, !.listener.observed = TRUE]

\* while self.telegram_enabled and self.running
listener_while(s) ==
    LET s0 == Begin(s, "listener") IN
    IF listening(s0) THEN {[s0 EXCEPT !.listener.at = "try"]}
    ELSE {listener_ends(s0)}

\* the check at the top of try
listener_try(s) ==
    LET s0 == Begin(s, "listener") IN
    IF ~listening(s0) THEN {listener_ends(s0)}
    ELSE {[s0 EXCEPT !.listener.at = "get"]}

\* requests.get(url, params=params, timeout=15) is called
listener_get(s) ==
    {[Begin(s, "listener")
        EXCEPT !.listener.at = "request",
               !.listener.polls = IF s.listener.stopped THEN Min2(@ + 1, 2) ELSE @]}

\* the sleep of "except Exception" begins
listener_backoff(s) ==
    [s EXCEPT !.listener.at = "backoff", !.listener.updates = 0,
              !.listener.backoffs = IF s.listener.stopped THEN Min2(@ + 1, 2) ELSE @]

\* requests.get is over: it raised, or was answered without updates to go
\* through, or with a result of 1..MaxUpdates updates
listener_response(s) ==
    LET s0 == Begin(s, "listener") IN
    {listener_backoff(s0)}
    \cup {[s0 EXCEPT !.listener.at = "while"]}
    \cup {[s0 EXCEPT !.listener.at = "for", !.listener.updates = n] : n \in 1..MaxUpdates}

\* the check at the top of "for update in ..."
listener_for(s) ==
    LET s0 == Begin(s, "listener") IN
    IF ~listening(s0) THEN {listener_ends(s0)}
    ELSE {[s0 EXCEPT !.listener.at = "update"]}

\* the rest of the iteration for an update from chat_id, or an exception in it
listener_update(s, chat_id) ==
    {[x EXCEPT !.listener.updates = @ - 1,
               !.listener.at = IF s.listener.updates > 1 THEN "for" ELSE "while"]
       : x \in handle_update(s, chat_id)}
    \cup {listener_backoff(Begin(s, "listener"))}

\* time.sleep(5) is over
listener_wakes(s) == {[Begin(s, "listener") EXCEPT !.listener.at = "while"]}

\* stop() up to "self.telegram_enabled = True"
stop_begins(s) ==
    LET old_telegram_state == s.telegram_enabled
        s1 == [Begin(s, "stop") EXCEPT !.telegram_enabled = FALSE,
                                       !.running = FALSE, !.jobs = <<>>]
    IN IF old_telegram_state /\ ~s.stop_notification_sent
       THEN {[s1 EXCEPT !.stop_notification_sent = TRUE,
                        !.telegram_enabled = TRUE,
                        !.stop_notices = Min2(@ + 1, 2),
                        !.stopping = TRUE]}
       ELSE {s1}

\* self.send_telegram_alert(stop_message); self.telegram_enabled = False
stop_ends(s) ==
    {[x EXCEPT !.telegram_enabled = FALSE, !.stopping = FALSE]
       : x \in send_telegram_alert(s, "shutdown")}

\* threading.Timer(2.0, self._start_telegram_listener) of start(s) that gave t
Spawned(s, t) ==
    IF t.telegram_enabled /\ t.auto_subscribe /\ ~s.listener_alive
    THEN [t EXCEPT !.listener = [NoListener EXCEPT !.at = "sleep"]]
    ELSE t

\* the call of stop() or quick_shutdown() found the thread there
Noted(t) == [t EXCEPT !.listener.stopped = @ \/ t.listener_alive]

\* start, stop and quick_shutdown are called one after the other
StartL ==
    /\ ~running /\ ~stopping
    /\ \E t \in start(St) : Becomes(Spawned(St, t))

StopBegins ==
    /\ ~stopping
    /\ \E t \in stop_begins(St) : Becomes(Noted(t))

StopEnds ==
    /\ stopping
    /\ \E t \in stop_ends(Begin(St, "stop_alert")) : Becomes(t)

QuickShutdownL ==
    /\ ~stopping
    /\ \E t \in quick_shutdown(St) : Becomes(Noted(t))

ListenerWhile ==
    /\ listener_alive /\ listener.at \in {"sleep", "while"}
    /\ \E t \in listener_while(St) : Becomes(t)

ListenerTry ==
    /\ listener_alive /\ listener.at = "try"
    /\ \E t \in listener_try(St) : Becomes(t)

ListenerGet ==
    /\ listener_alive /\ listener.at = "get"
    /\ \E t \in listener_get(St) : Becomes(t)

ListenerResponse ==
    /\ listener_alive /\ listener.at = "request"
    /\ \E t \in listener_response(St) : Becomes(t)

ListenerFor ==
    /\ listener_alive /\ listener.at = "for"
    /\ \E t \in listener_for(St) : Becomes(t)

ListenerHandles ==
    /\ listener_alive /\ listener.at = "update"
    /\ \E c \in Chats : \E t \in listener_update(St, c) : Becomes(t)

ListenerWakes ==
    /\ listener_alive /\ listener.at = "backoff"
    /\ \E t \in listener_wakes(St) : Becomes(t)

ListenerStep ==
    \/ ListenerWhile
    \/ ListenerTry
    \/ ListenerGet
    \/ ListenerResponse
    \/ ListenerFor
    \/ ListenerHandles
    \/ ListenerWakes

InitListener ==
    \E S \in SUBSET Chats :
      /\ Constructed({}, 0, TRUE, TRUE, S)
      /\ DefaultThresholds
      /\ DefaultWindow

NextListener ==
    \/ StartL
    \/ StopBegins
    \/ StopEnds
    \/ QuickShutdownL
    \/ ListenerWhile
    \/ ListenerTry
    \/ ListenerGet
    \/ ListenerResponse
    \/ ListenerFor
    \/ ListenerHandles
    \/ ListenerWakes

SpecListener == InitListener /\ [][NextListener]_vars /\ WF_vars(ListenerStep)

(***************************************************************************)
(* SpecOffset: the listener and Telegram's getUpdates.  The bot's updates  *)
(* are numbered 1, 2, ... as they arrive; a request with offset o confirms *)
(* the updates below o and is answered with the first updates from o on    *)
(* that are not confirmed, in order.  The thread keeps last_update_id and  *)
(* asks for last_update_id + 1.                                            *)
(***************************************************************************)
\* a message reaches the bot
arrives(s) ==
    {[Begin(s, "arrives") EXCEPT !.inbound.arrived = @ + 1]}

\* the update_ids getUpdates may answer a request for offset with
getUpdates(s, offset) ==
    LET from == Max2(offset, s.inbound.confirmed + 1)
        n == s.inbound.arrived - from + 1
    IN {[i \in 1..k |-> from + i - 1] : k \in 0..Min2(MaxUpdates, Max2(n, 0))}

\* params = {'offset': last_update_id + 1, 'timeout': 10}; requests.get is called
poll_get(s) ==
    {[x EXCEPT !.listener.offset = s.listener.last_update_id + 1]
       : x \in listener_get(s)}

\* requests.get is over: it raised, or was answered with another status than
\* 200, or with data['result']
poll_response(s) ==
    LET s0 == Begin(s, "listener")
        s1 == [s0 EXCEPT !.inbound.confirmed = Max2(@, s.listener.offset - 1)]
    IN {listener_backoff(s0), listener_backoff(s1)}
       \cup {[s1 EXCEPT !.listener.at = "while"]}
       \cup {[s1 EXCEPT !.listener.at = IF r = <<>> THEN "while" ELSE "for",
                        !.listener.updates = Len(r),
                        !.listener.result = r]
               : r \in getUpdates(s1, s.listener.offset)}

\* the check at the top of "for update in ...": return drops the result
poll_for(s) ==
    {[x EXCEPT !.listener.result = IF x.listener_alive THEN @ ELSE <<>>]
       : x \in listener_for(s)}

\* poll_update that assigns last_update_id when the update is done with
poll_update_late(s, chat_id) ==
    LET update_id == Head(s.listener.result)
        s1 == [s EXCEPT !.inbound.taken[update_id] = Min2(@ + 1, 2)]
        onward(x) ==
            IF x.listener.at = "backoff"
            THEN [x EXCEPT !.listener.result = <<>>,
                           !.inbound.raised = @ \cup {update_id}]
            ELSE [x EXCEPT !.listener.result = Tail(s.listener.result),
                           !.listener.last_update_id = update_id]
        plain == [Begin(s1, "listener")
                    EXCEPT !.listener.updates = @ - 1,
                           !.listener.at = IF s.listener.updates > 1 THEN "for"
                                           ELSE "while"]
    IN {onward(x) : x \in listener_update(s1, chat_id) \cup {plain}}

\* one iteration of the for loop: last_update_id = update['update_id'], then
\* an update without a message, or the message of chat_id is handled, or an
\* exception ends the try
poll_update(s, chat_id) ==
    LET update_id == Head(s.listener.result)
        s1 == [s EXCEPT !.listener.last_update_id = update_id,
                        !.inbound.taken[update_id] = Min2(@ + 1, 2)]
        onward(x) ==
            IF x.listener.at = "backoff"
            THEN [x EXCEPT !.listener.result = <<>>,
                           !.inbound.raised = @ \cup {update_id}]
            ELSE [x EXCEPT !.listener.result = Tail(s.listener.result)]
        plain == [Begin(s1, "listener")
                    EXCEPT !.listener.updates = @ - 1,
                           !.listener.at = IF s.listener.updates > 1 THEN "for"
                                           ELSE "while"]
    IN {onward(x) : x \in listener_update(s1, chat_id) \cup {plain}}

Arrives ==
    /\ inbound.arrived < MaxEvents
    /\ \E t \in arrives(St) : Becomes(t)

PollGet ==
    /\ listener_alive /\ listener.at = "get"
    /\ \E t \in poll_get(St) : Becomes(t)

PollResponse ==
    /\ listener_alive /\ listener.at = "request"
    /\ \E t \in poll_response(St) : Becomes(t)

PollFor ==
    /\ listener_alive /\ listener.at = "for"
    /\ \E t \in poll_for(St) : Becomes(t)

PollHandles ==
    /\ listener_alive /\ listener.at = "update"
    /\ \E c \in Chats : \E t \in poll_update(St, c) : Becomes(t)

NextOffset ==
    \/ StartL
    \/ QuickShutdownL
    \/ Arrives
    \/ ListenerWhile
    \/ ListenerTry
    \/ PollGet
    \/ PollResponse
    \/ PollFor
    \/ PollHandles
    \/ ListenerWakes

SpecOffset == InitListener /\ [][NextOffset]_vars

(***************************************************************************)
(* SpecReload: the program is run again and again on one directory: each   *)
(* run constructs a MySQLDumpScheduler with a telegram_config, which loads *)
(* the subscribers file the runs before it saved, or one that was damaged  *)
(* in between.                                                             *)
(***************************************************************************)
\* MySQLDumpScheduler(..., telegram_config) in a new run of the program, on
\* the directory and the subscribers file of s
construct(s) ==
    LET fresh == [Begin(s, "load_subscribers")
                    EXCEPT !.running = FALSE, !.security_enabled = TRUE,
                           !.telegram_enabled = TRUE,
                           !.telegram_subscribers = {},
                           !.stop_notification_sent = FALSE,
                           !.night_mode = FALSE,
                           !.jobs = <<>>, !.runnable = <<>>,
                           !.thread_alive = FALSE, !.listener_alive = FALSE,
                           !.startup_pending = FALSE, !.stop_notices = 0,
                           !.last.after_save =
                               /\ s.last.saves # <<>>
                               /\ s.last.saves[Len(s.last.saves)] = "written"]
    IN {load_subscribers(fresh)}

\* telegram_subscribers.json is no longer something json.load can read
damaged(s) ==
    {[Begin(s, "damaged")
        EXCEPT !.subscribers_file = [readable |-> FALSE, subscribers |-> <<>>]]}

Construct == \E t \in construct(St) : Becomes(t)

Damaged ==
    /\ subscribers_file.readable
    /\ \E t \in damaged(St) : Becomes(t)

InitReload ==
    \E S \in SUBSET Chats :
      /\ Constructed({}, 0, TRUE, TRUE, S)
      /\ DefaultThresholds
      /\ DefaultWindow

NextReload ==
    \/ StartT
    \/ StartupNotificationT
    \/ ListenerUpdate
    \/ StopT
    \/ Construct
    \/ Damaged

SpecReload == InitReload /\ [][NextReload]_vars

(***************************************************************************)
(* SpecSteps: the cycles of the scheduler thread and of the thread of a    *)
(* manual dump, each in three steps: up to the return of mysqldump, the    *)
(* validation, the retention.  Nothing keeps the steps of one thread from  *)
(* falling between those of the other.                                     *)
(***************************************************************************)
CycleOp(th) == IF th = "scheduler" THEN "scheduled_task" ELSE "manual_dump"

\* The cycle of th up to the return of mysqldump: the mode check of
\* scheduled_task, the probe of the caller, then in create_dump the probe
\* and mysqldump.  A probe of the caller that fails ends the cycle; a probe
\* of create_dump that fails and a mysqldump that returns nonzero make
\* create_dump return False; a dump w of written is in the directory.
cycle_dumps(s, th, written) ==
    LET first == IF th = "scheduler"
                 THEN check_night_mode_transition(Begin(s, CycleOp(th)))
                 ELSE {Begin(s, CycleOp(th))}
        dump(x) ==
          LET x1 == [x EXCEPT !.last.probe = "ok", !.last.probes = @ + 2]
              back(y) == [y EXCEPT !.cycle_at[th].at = "returned"]
          IN {[x EXCEPT !.last.probe = "fail", !.last.probes = @ + 1]}
             \cup {back([x1 EXCEPT !.last.dump = "no_connection"])}
             \cup {back([x1 EXCEPT !.last.dump = "nonzero"])}
             \cup {LET f == DumpFile(x1, w[1], w[2])
                   IN [x1 EXCEPT !.files = @ \cup {f}, !.clock = @ + 1,
                                 !.last.dump = "ok", !.last.candidate = f.id,
                                 !.cycle_at[th] = [at |-> "dumped", candidate |-> f.id]]
                     : w \in written}
    IN Then(first, dump)

\* dump_file as the validation finds it
Found(s, path) ==
    IF path \in Ids(s.files) THEN FileOf(s.files, path)
    ELSE [id |-> path, mtime |-> 0, size |-> 0, content |-> "blank"]

\* create_dump of th from the return of mysqldump to its own return
cycle_validates(s, th) ==
    LET s0 == [Begin(s, CycleOp(th)) EXCEPT !.last.probe = "ok", !.last.dump = "ok",
                                            !.last.candidate = s.cycle_at[th].candidate]
        f == Found(s0, s.cycle_at[th].candidate)
        done == IF s0.security_enabled THEN validate_dump(s0, f)
                ELSE {[s0 EXCEPT !.last.created = TRUE]}
    IN {[x EXCEPT !.cycle_at[th].at = "returned"] : x \in done}

\* the retention step of the cycle of th
cycle_cleans(s, th) ==
    LET s0 == [Begin(s, CycleOp(th)) EXCEPT !.last.probe = "ok"]
        done == IF th = "scheduler" /\ ~s0.security_enabled
                THEN perform_cleanup(s0) ELSE cleanup(s0)
    IN {[x EXCEPT !.cycle_at[th] = NoStep] : x \in done}

CycleDumps ==
    \E th \in Threads :
      /\ cycle_at[th].at = "idle"
      /\ \E t \in cycle_dumps(St, th, OverlapWrites) : Becomes(t)

CycleValidates ==
    \E th \in Threads :
      /\ cycle_at[th].at = "dumped"
      /\ \E t \in cycle_validates(St, th) : Becomes(t)

CycleCleans ==
    \E th \in Threads :
      /\ cycle_at[th].at = "returned"
      /\ \E t \in cycle_cleans(St, th) : Becomes(t)

NextSteps ==
    \/ CycleDumps
    \/ CycleValidates
    \/ CycleCleans

SpecSteps == InitCycle /\ [][NextSteps]_vars

(***************************************************************************)
(* SpecRepeat: cycle after cycle of the trigger on a directory of good     *)
(* backups, mysqldump writing a dump of the size of the good ones or a     *)
(* smaller one.                                                            *)
(***************************************************************************)
\* dumps one run of this specification produces
RepeatDumps == 3

\* the smaller dump: above min_size_threshold, under 0.8 of the good ones
SmallSize == (MaxSizeKb - 2) * KB

RepeatWrites ==
    IF clock < RepeatDumps
    THEN {<<SmallSize, "sql">>, <<MaxSizeKb * KB, "sql">>}
    ELSE {}

\* the verdicts of check_size_consistency against previous backups
SizeRefusals == {"suspiciously_small", "below_historical_minimum"}

\* t with the size of its candidate among the refused ones, or with none
\* refused once its candidate has passed
Refused(t) ==
    IF t.last.verdict = "safe" THEN [t EXCEPT !.rejected = {}]
    ELSE IF t.last.msg \in SizeRefusals /\ t.last.candidate \in Ids(t.files)
         THEN [t EXCEPT !.rejected = @ \cup {FileOf(t.files, t.last.candidate).size}]
         ELSE t

RepeatCycle ==
    /\ clock < RepeatDumps
    /\ \E t \in scheduled_task(St, RepeatWrites, FALSE) : Becomes(Refused(t))

InitRepeat ==
    \E n \in 1..MaxMtime : \E copies \in 1..MaxCopies :
      /\ Constructed(GoodBackups(n), copies, FALSE, TRUE, {})
      /\ DefaultThresholds
      /\ DefaultWindow

NextRepeat == RepeatCycle

SpecRepeat == InitRepeat /\ [][NextRepeat]_vars

(***************************************************************************)
(* SpecShared: schedulers of several databases on one dump directory.  A   *)
(* database name is the sequence of its parts between underscores; the     *)
(* name of an artifact is the sequence of the parts of its file name       *)
(* before ".sql".                                                          *)
(***************************************************************************)
\* the databases: x, y and x_y
Databases == {<<"x">>, <<"y">>, <<"x", "y">>}

\* artifacts of one database in the directory at the start, at most
MaxShared == 2

\* f"{self.database}_{timestamp}.sql" with timestamp = "%Y%m%d_%H%M%S"
dump_file(database) == database \o <<"date", "time">>

\* name matches f"{database}_*.sql": it begins with the parts of database and
\* an underscore
matches(name, database) ==
    /\ Len(name) > Len(database)
    /\ SubSeq(name, 1, Len(database)) = database

\* glob.glob(os.path.join(dump_dir, f"{database}_*.sql"))
glob(dir, database) == {f \in dir : matches(f.name, database)}

\* _perform_cleanup of the scheduler of database
perform_cleanup_of(s, database) ==
    LET others == s.files \ glob(s.files, database)
    IN {[t EXCEPT !.files = @ \cup others, !.last.database = database]
          : t \in perform_cleanup([s EXCEPT !.files = glob(s.files, database)])}

\* previous_backups[:5] of check_size_consistency for the new backup f of the
\* scheduler of database
history_of(s, database, f) ==
    {[s EXCEPT !.last.database = database, !.last.candidate = f.id,
               !.last.history = Ids(H)]
       : H \in Histories(glob(s.files, database), f.id)}

\* the i-th artifact of the database number d
Shared(database, d, i) ==
    [id |-> d * MaxShared + i, mtime |-> d * MaxShared + i, size |-> MaxSizeKb * KB,
     content |-> "sql", database |-> database, name |-> dump_file(database)]

DatabaseNo(database) ==
    IF database = <<"x">> THEN 0 ELSE IF database = <<"y">> THEN 1 ELSE 2

InitShared ==
    \E n \in [Databases -> 0..MaxShared] : \E copies \in 0..1 :
      /\ Constructed({Shared(db, DatabaseNo(db), i) : <<db, i>> \in
                        {p \in Databases \X (1..MaxShared) : p[2] <= n[p[1]]}},
                     copies, FALSE, TRUE, {})
      /\ DefaultThresholds
      /\ DefaultWindow

CleanupShared ==
    \E database \in Databases :
      \E t \in perform_cleanup_of(Begin(St, "perform_cleanup"), database) : Becomes(t)

HistoryShared ==
    \E f \in files :
      \E t \in history_of(Begin(St, "check_size_consistency"), f.database, f) : Becomes(t)

NextShared ==
    \/ CleanupShared
    \/ HistoryShared

SpecShared == InitShared /\ [][NextShared]_vars

(***************************************************************************)
(* SpecQuit: App.quit_app in the tray thread beside stop() and             *)
(* quick_shutdown() called from the window's thread, on one scheduler with *)
(* Telegram configured.  quit_app is three steps: its check of             *)
(* telegram_enabled with the checks at the top of send_telegram_alert, the *)
(* deliveries of the quit notice, its call of stop().  The trace keeps the *)
(* alerts of the whole run.                                                *)
(***************************************************************************)
\* t, a state a call made from s, with the alerts of the calls before it
Kept(s, t) == [t EXCEPT !.last.alerts = s.last.alerts \o @]

\* send_telegram_alert from "success_count = 0" on: the deliveries, the
\* removal of the chats that failed, the save
alert_delivers(s, kind) ==
    UNION {
      LET to == s.telegram_subscribers
          failed_chats == {c \in to : ~send_telegram_message(delivery[c])}
          success_count == Cardinality({c \in to : send_telegram_message(delivery[c])})
          s1 == [s EXCEPT !.telegram_subscribers = @ \ failed_chats]
          s2 == IF failed_chats # {} THEN save_subscribers(s1) ELSE {s1}
      IN {Alerted(x, kind, to, failed_chats, success_count > 0) : x \in s2}
      : delivery \in [s.telegram_subscribers -> Deliveries] }

\* quit_app up to the deliveries of its notice: "if self.scheduler and
\* self.scheduler.telegram_enabled", then the two checks of send_telegram_alert
quit_checks(s) ==
    LET s0 == Begin(s, "quit_app") IN
    IF ~s0.telegram_enabled THEN {[s0 EXCEPT !.quit_at = "stop"]}
    ELSE IF s0.telegram_subscribers = {}
         THEN {[x EXCEPT !.telegram_enabled = FALSE, !.quit_at = "stop"]
                 : x \in {Alerted(s0, "quit", {}, {}, FALSE)}}
         ELSE {[s0 EXCEPT !.quit_at = "sending"]}

\* the deliveries of the quit notice, then "self.scheduler.telegram_enabled = False"
quit_delivers(s) ==
    {[x EXCEPT !.telegram_enabled = FALSE, !.quit_at = "stop"]
       : x \in alert_delivers(Begin(s, "quit_app"), "quit")}

\* self.scheduler.stop(), then the application is destroyed
quit_stops(s) == {[x EXCEPT !.quit_at = "done"] : x \in stop(s)}

QuitChecks ==
    /\ quit_at = "idle"
    /\ \E t \in quit_checks(St) : Becomes(Kept(St, t))

QuitDelivers ==
    /\ quit_at = "sending"
    /\ \E t \in quit_delivers(St) : Becomes(Kept(St, t))

QuitStops ==
    /\ quit_at = "stop"
    /\ \E t \in quit_stops(St) : Becomes(Kept(St, t))

\* the window's thread, until the application is destroyed
StopBeginsQ ==
    /\ quit_at # "done" /\ ~stopping
    /\ \E t \in stop_begins(St) : Becomes(Kept(St, t))

StopEndsQ ==
    /\ quit_at # "done" /\ stopping
    /\ \E t \in stop_ends(Begin(St, "stop_alert")) : Becomes(Kept(St, t))

QuickShutdownQ ==
    /\ quit_at # "done" /\ ~stopping
    /\ \E t \in quick_shutdown(St) : Becomes(Kept(St, t))

InitQuit ==
    \E S \in SUBSET Chats :
      /\ Constructed({}, 0, TRUE, TRUE, S)
      /\ DefaultThresholds
      /\ DefaultWindow

NextQuit ==
    \/ QuitChecks
    \/ QuitDelivers
    \/ QuitStops
    \/ StopBeginsQ
    \/ StopEndsQ
    \/ QuickShutdownQ

SpecQuit == InitQuit /\ [][NextQuit]_vars

(***************************************************************************)
(* Properties                                                              *)
(***************************************************************************)
Cycles == {"scheduled_task", "manual_dump"}

\* the state of the program: every variable but the trace
progvars == <<files, clock, min_size_threshold, size_reduction_threshold, max_copies,
              security_enabled, running, telegram_enabled, auto_subscribe,
              telegram_subscribers, subscribers_file, stop_notification_sent,
              night_mode, night_start_time, night_end_time, current_time,
              jobs, runnable, thread_alive, listener_alive, startup_pending,
              stop_notices, in_cycle, unwritten, listener, stopping, cycle_at,
              quit_at>>

\* C1 (as claimed): with security validation enabled, a cycle runs the
\* retention step only if validate_before_cleanup returned safe in that cycle;
\* never after an unsafe verdict, a failed dump or a create_dump without artifact.
C1_RetentionOnlyAfterSafe ==
    (last.op \in Cycles /\ security_enabled /\ (last.cleanup \/ last.retention))
        => last.verdict = "safe"

\* C2 (as claimed): in a cycle whose verdict is unsafe nothing is deleted: the
\* artifacts that were there before the cycle and the rejected candidate are
\* all in the directory when the cycle ends.
C2_UnsafeDeletesNothing ==
    (last.op \in Cycles /\ last.verdict = "unsafe")
        => (last.deleted = {} /\ last.candidate \in Ids(files))

\* the candidate, its prior artifacts and the history of the last validation
Candidate == FileOf(files, NewId(0))
Prior == {f \in files : f.id # NewId(0)}
History == {f \in files : f.id \in last.history}

\* the candidate passed the integrity check and has a history
C3_Case ==
    /\ last.op = "validate_before_cleanup"
    /\ last.msg # "integrity"
    /\ last.history # {}

\* the history is the min(5, n) most recent of the n prior artifacts
C3_HistoryIsRecent ==
    /\ History \subseteq Prior
    /\ Cardinality(History) = Min2(HistoryLimit, Cardinality(Prior))
    /\ \A h \in History : \A o \in Prior \ History : h.mtime >= o.mtime

\* s < a * (1 - threshold), a the average size of the history
C3_BelowAverage ==
    Candidate.size * Cardinality(History) * 100
        < SumSizes(History) * size_reduction_threshold

C4_FirstBackup ==
    (/\ last.op = "validate_before_cleanup"
     /\ NewId(0) \in Ids(files)
     /\ Prior = {}
     /\ Candidate.content \in {"sql", "latin1"})
        => /\ (last.verdict = "safe") = (Candidate.size >= min_size_threshold)
           /\ last.verdict = "safe" => last.msg = "first_backup"

C4_Witness ==
    /\ last.op = "validate_before_cleanup"
    /\ NewId(0) \in Ids(files)
    /\ Prior = {}
    /\ Candidate.size = min_size_threshold
    /\ min_size_threshold = MaxMinSizeKb * KB
    /\ last.verdict = "safe"
    /\ last.msg = "first_backup"

\* C5: one run of the retention step without deletion errors on N artifacts
\* with max_copies = k deletes nothing when N <= k, and when k < N deletes
\* exactly N - k artifacts, none of them more recent than one it keeps.
C5_RetentionCap ==
    [][(last'.retention /\ last'.deleted = last'.selected)
         => LET N == Cardinality(files)
                gone == files \ files'
            IN /\ files' \subseteq files
               /\ N <= max_copies => gone = {}
               /\ max_copies < N =>
                    /\ Cardinality(gone) = N - max_copies
                    /\ Cardinality(files') = max_copies
                    /\ \A g \in gone : \A kept \in files' : g.mtime <= kept.mtime]_vars

C5_Witness ==
    /\ last.retention
    /\ last.deleted = last.selected
    /\ max_copies = MaxCopies
    /\ Cardinality(files) = MaxCopies
    /\ Cardinality(last.deleted) = MaxPrior - MaxCopies

\* C6: is_night_time is (now >= start or now < end) for a window with
\* start > end and (start <= now < end) otherwise, that is: now lies less than
\* the length of the window after its start, around the clock.  For
\* (20:30, 05:00) it holds at 23:00 and 02:00 and fails at 12:00 and 06:00; for
\* (05:00, 20:30) it is the other way round.
C6_NightWindow ==
    last.op = "is_night_time" =>
      LET now == current_time
          from == night_start_time
          to == night_end_time
      IN /\ last.ret = IF from > to THEN (now >= from \/ now < to)
                                    ELSE (from <= now /\ now < to)
         /\ last.ret = (((now - from) % MinutesPerDay) < ((to - from) % MinutesPerDay))
         /\ (from = NightStart /\ to = NightEnd) =>
               /\ now \in {23 * 60, 2 * 60} => last.ret
               /\ now \in {12 * 60, 6 * 60} => ~last.ret
         /\ (from = NightEnd /\ to = NightStart) =>
               /\ now \in {23 * 60, 2 * 60} => ~last.ret
               /\ now \in {12 * 60, 6 * 60} => last.ret

C6_Witness ==
    /\ last.op = "is_night_time"
    /\ night_start_time = NightStart
    /\ night_end_time = NightEnd
    /\ current_time = 2 * 60
    /\ last.ret

\* C7: stop() leaves running = false, all the calls of stop() together send at
\* most one shutdown notification, and a stop() right after a stop() changes
\* nothing.
C7_StopIdempotent ==
    /\ [](last.op = "stop" => ~running)
    /\ [](stop_notices <= 1)
    /\ [][(last'.op = "stop" /\ last'.again) => UNCHANGED progvars]_vars

C7_Witness ==
    /\ last.op = "stop"
    /\ last.again
    /\ stop_notices = 1
    /\ telegram_subscribers # {}

\* C8: the persisted subscriber list names no chat twice (the subscribers in
\* memory are a set), and an update from a chat that is subscribed changes
\* neither the set nor the list.
C8_SubscribeOnce ==
    /\ [](Cardinality(Range(subscribers_file.subscribers))
             = Len(subscribers_file.subscribers))
    /\ [][(last'.op = "listen_for_new_users" /\ last'.chat \in telegram_subscribers)
            => UNCHANGED <<telegram_subscribers, subscribers_file>>]_vars

C8_Witness ==
    /\ last.op = "listen_for_new_users"
    /\ last.chat \in telegram_subscribers
    /\ ~last.ret
    /\ Len(subscribers_file.subscribers) = MaxChats

\* the armed jobs that call func
Armed(func) == {i \in DOMAIN jobs : jobs[i].func = func}

\* C9: while the scheduler is running exactly one backup trigger is armed,
\* and two are never armed together.
C9_OneBackupTrigger ==
    /\ Cardinality(Armed("scheduled_task")) <= 1
    /\ running => Cardinality(Armed("scheduled_task")) = 1

\* a reconfiguration by the mode check: back to the day interval
C9_Witness ==
    /\ running
    /\ last.op = "check_night_mode_transition"
    /\ ~night_mode
    /\ jobs = <<Job("scheduled_task", normal_interval)>>

\* C10 (as claimed): while the scheduler is running the one-minute mode check
\* stays armed, whatever mode transitions came before.
C10_ModeCheckArmed ==
    running => Armed("check_night_mode_transition") # {}

\* the interval the mode flag asks for
ModeInterval == IF night_mode THEN night_interval ELSE normal_interval

\* C11 (as claimed): while the scheduler is running the armed backup trigger
\* has the off-peak interval iff night_mode is set and the normal interval
\* otherwise, also after a start that follows a stop on the same instance.
C11_IntervalFollowsMode ==
    running => /\ Armed("scheduled_task") # {}
               /\ \A i \in Armed("scheduled_task") : jobs[i].interval = ModeInterval

\* C13 (as claimed): from the return of stop() to the next start(), running is
\* false and no job is armed, also when stop() came while the scheduler thread
\* was inside run_pending.
C13_StoppedMeansDisarmed ==
    ~running => jobs = <<>>

\* the calls that check the mode
ModeChecks == {"check_night_mode_transition", "scheduled_task"}

\* C12: a mode check dispatches one mode-change notification when the mode
\* flag is on the other side of the window than the time, and none otherwise;
\* it leaves the flag on the side of the time, so a check repeated while the
\* time stays on its side dispatches none and one crossing never dispatches two.
C12_OneNoticePerTransition ==
    [][last'.op \in ModeChecks =>
         LET is_night == is_night_time(current_time, night_start_time, night_end_time)
         IN /\ night_mode' = is_night
            /\ last'.modes = IF night_mode # is_night THEN 1 ELSE 0
            /\ last.op \in ModeChecks => last'.modes = 0]_vars

C12_Witness ==
    /\ last.op = "check_night_mode_transition"
    /\ last.modes = 1
    /\ running
    /\ night_mode

\* the notifications of a mode change
ModeNotices == {"night_start", "night_end"}

C15_FailedDumpLeavesNothing ==
    (last.op \in Cycles /\ last.dump \in {"nonzero", "exception"}) =>
        /\ ~last.raised
        /\ ~last.created
        /\ last.candidate \notin Ids(files)

Persisted ==
    IF subscribers_file.readable THEN Range(subscribers_file.subscribers) ELSE {}

C18_AlertReturnsBoolean ==
    [][\A i \in DOMAIN last'.alerts :
         LET a == last'.alerts[i]
         IN /\ a.ret \in BOOLEAN
            /\ a.failed \subseteq a.to
            /\ a.ret = (a.to \ a.failed # {})
            /\ ~telegram_enabled =>
                  /\ a.ret = FALSE /\ a.to = {}
                  /\ telegram_subscribers' = telegram_subscribers
                  /\ subscribers_file' = subscribers_file]_vars

C18_Witness ==
    /\ ~telegram_enabled
    /\ telegram_subscribers # {}
    /\ last.alerts # <<>>
    /\ last.alerts[1].kind = "critical"
    /\ last.alerts[1].to = {}
    /\ last.alerts[1].ret = FALSE

\* the alerts of a cycle but for those of its mode check
OfCycle(a) == a.kind \notin ModeNotices

\* the alerts of a cycle that saved the subscribers
SavedInCycle(a) == OfCycle(a) /\ a.failed # {}

\* What a cycle did and the state it left, but for who ran it, for its mode
\* check's notifications, for the writes of the subscribers these made, which
\* come first, and for the method its retention step was called through.
Outcome(t) ==
    LET k == Len(SelectSeq(t.last.alerts, SavedInCycle))
    IN [t EXCEPT !.last.op = "cycle", !.last.cleanup = FALSE, !.last.modes = 0,
                 !.last.alerts = SelectSeq(@, OfCycle),
                 !.last.saves = SubSeq(@, Len(@) - k + 1, Len(@))]

\* C19: from any state, for the same outcomes of the collaborators, a
\* scheduled cycle and a manual run made after the mode check of the scheduled
\* one take the same probe, dump, validation and retention steps and leave the
\* same directory, subscribers and modes.
C19_ManualAsScheduled ==
    clock < MaxDumps =>
        LET manual(x) == manual_dump_task(x, CycleWrites, TRUE)
        IN {Outcome(t) : t \in scheduled_task(St, CycleWrites, TRUE)}
           = {Outcome(t) :
                t \in Then(check_night_mode_transition(Begin(St, "scheduled_task")),
                           manual)}

C19_Witness ==
    /\ last.op = "manual_dump"
    /\ ~security_enabled
    /\ last.dump = "nonzero"
    /\ last.deleted # {}
    /\ clock < MaxDumps

\* C20: at no time are two cycles inside their dump, validation or retention
\* steps on the same directory.
C20_OneCycleAtATime ==
    Cardinality(in_cycle) <= 1

\* C21: the loop of run_scheduler goes on while mysqldump runs: when the time
\* of day moves during the dump of a scheduled cycle and the mode check is
\* armed, the mode check is made before the dump is over, so the dump never
\* ends right after the tick.
C21_LoopTicksDuringDump ==
    [][("scheduler" \in in_cycle /\ "scheduler" \notin in_cycle'
          /\ Armed("check_night_mode_transition") # {})
         => last.op # "tick"]_vars

\* C22: quick_shutdown sends no notification and leaves running false,
\* Telegram off and no job armed; Telegram stays off from then on, and a
\* stop() made with Telegram off sends no shutdown notification.
C22_QuickShutdownSilent ==
    /\ [][last'.op = "quick_shutdown" =>
            /\ last'.alerts = <<>>
            /\ stop_notices' = stop_notices
            /\ telegram_subscribers' = telegram_subscribers
            /\ ~running' /\ ~telegram_enabled' /\ jobs' = <<>>]_vars
    /\ [][~telegram_enabled => ~telegram_enabled']_vars
    /\ [][(~telegram_enabled /\ last'.op = "stop") =>
            /\ last'.alerts = <<>>
            /\ stop_notices' = stop_notices
            /\ ~running' /\ ~telegram_enabled' /\ jobs' = <<>>]_vars

\* a stop() that sent nothing, on a scheduler that was started with Telegram on
C22_Witness ==
    /\ last.op = "stop"
    /\ ~last.again
    /\ last.alerts = <<>>
    /\ stop_notices = 0
    /\ startup_pending
    /\ telegram_subscribers # {}

\* the subscribers file after a write of the subscribers S
Written(S) == [readable |-> TRUE, subscribers |-> SetToSeq(S)]

\* C23: a call that changes telegram_subscribers (the listener adds a chat,
\* send_telegram_alert removes the chats that failed) calls save_subscribers
\* after the change and before it returns; when the write succeeds the file
\* lists exactly the subscribers in memory.
C23_MutationIsSaved ==
    [][telegram_subscribers' # telegram_subscribers =>
         /\ last'.saves # <<>>
         /\ last'.saves[Len(last'.saves)] = "written" =>
               /\ subscribers_file' = Written(telegram_subscribers')
               /\ Persisted' = telegram_subscribers']_vars

\* an add and a removal, each written
C23_Witness ==
    /\ last.saves = <<"written">>
    /\ Persisted = telegram_subscribers
    /\ \/ last.op = "listen_for_new_users" /\ last.ret
       \/ last.alerts # <<>> /\ last.alerts[1].failed # {} /\ telegram_subscribers # {}

\* C30: when the write of save_subscribers fails, the call that made it still
\* returns, the chat it added is a subscriber and the chats it removed are
\* not, and the file is what it was; a later change of the subscribers whose
\* write succeeds leaves the file listing all the subscribers in memory,
\* whatever the file missed before.
C30_FailedWriteKeepsMemory ==
    /\ [][(last'.saves # <<>> /\ last'.saves[Len(last'.saves)] = "failed") =>
            /\ last'.op = "listen_for_new_users" =>
                  /\ last'.ret
                  /\ telegram_subscribers' = telegram_subscribers \cup {last'.chat}
                  /\ last'.chat \notin telegram_subscribers
            /\ last'.alerts # <<>> =>
                  LET a == last'.alerts[Len(last'.alerts)]
                  IN /\ a.ret \in BOOLEAN
                     /\ a.failed # {}
                     /\ telegram_subscribers' = a.to \ a.failed
            /\ Len(last'.saves) = 1 => subscribers_file' = subscribers_file]_vars
    /\ [][(Persisted # telegram_subscribers
             /\ telegram_subscribers' # telegram_subscribers
             /\ last'.saves # <<>> /\ last'.saves[Len(last'.saves)] = "written") =>
            /\ subscribers_file' = Written(telegram_subscribers')
            /\ Persisted' = telegram_subscribers']_vars

\* the listener added a chat and the write failed
C30_Witness ==
    /\ last.op = "listen_for_new_users"
    /\ last.saves = <<"failed">>
    /\ last.ret
    /\ last.chat \in telegram_subscribers
    /\ last.chat \notin Persisted

\* C24: when the last of the writes of the listener and of
\* send_telegram_alert is done, so that both have finished saving, the
\* subscribers file lists exactly the subscribers in memory, however their
\* steps were interleaved.
C24_PersistedFollowsMemory ==
    [][(unwritten # {} /\ unwritten' = {}) => Persisted' = telegram_subscribers']_vars

\* the contents with no dump marker in the first 10 lines, in either encoding
NoMarker == {"nosql", "latin1_nosql"}

\* C26: validate_before_cleanup says unsafe for every candidate with no dump
\* marker in its first 10 lines, whether it decodes as UTF-8 or only as
\* latin-1; and a candidate that is too small or fails the content check is
\* turned down by the integrity check, before any comparison with the history.
C26_NoMarkerIsUnsafe ==
    (last.op = "validate_before_cleanup" /\ NewId(0) \in Ids(files)) =>
        /\ Candidate.content \in NoMarker => last.verdict = "unsafe"
        /\ (Candidate.size < min_size_threshold \/ Candidate.content \in NoMarker)
              => last.msg = "integrity"

\* C25: a call of validate_before_cleanup leaves the directory as it was: no
\* artifact is created, removed or changed, whatever the verdict; nothing
\* else of the scheduler changes either.
C25_ValidateChangesNothing ==
    [][last'.op = "validate_before_cleanup" =>
         /\ files' = files
         /\ UNCHANGED progvars]_vars

C25_Witness ==
    /\ last.op = "validate_before_cleanup"
    /\ last.verdict = "unsafe"
    /\ NewId(0) \in Ids(files)
    /\ Prior # {}

\* C27: when validate_before_cleanup gets to the size check, the artifacts its
\* average is taken over are min(5, n) of the n artifacts other than the
\* candidate, none of the others being more recent than any of them; the
\* candidate is not among them; and the candidate is called suspiciously
\* small exactly when its size is below the threshold share of their mean.
C27_AverageOfRecentPrior ==
    (/\ last.op = "validate_before_cleanup"
     /\ NewId(0) \in Ids(files)
     /\ last.msg # "integrity")
        => /\ NewId(0) \notin last.history
           /\ C3_HistoryIsRecent
           /\ (last.msg = "suspiciously_small") = (Prior # {} /\ C3_BelowAverage)

C27_Witness ==
    /\ last.op = "validate_before_cleanup"
    /\ NewId(0) \in Ids(files)
    /\ last.msg = "suspiciously_small"
    /\ Cardinality(Prior) > HistoryLimit
    /\ Cardinality(History) = HistoryLimit
    /\ \E o \in Prior \ History : o.size # Candidate.size

\* C29: when the retention step has several artifacts to delete and os.remove
\* fails for some of them, every other selected artifact is deleted, and the
\* step returns to its caller without raising.
C29_OtherDeletionsGoOn ==
    [][last'.retention
         => /\ last'.deleted = last'.selected \ last'.refused
            /\ files' = {f \in files : f.id \notin last'.deleted}
            /\ ~last'.raised]_vars

C29_Witness ==
    /\ last.retention
    /\ Cardinality(last.selected) >= 3
    /\ Cardinality(last.refused) = 1
    /\ last.deleted = last.selected \ last.refused
    /\ \E f \in files : f.id \in last.refused /\ \A g \in files : f.mtime >= g.mtime
    /\ Cardinality(files) = max_copies + 1

\* C28: once stop() or quick_shutdown() was called with the listener thread
\* there, the thread ends; until then it begins at most one more request and
\* at most one more error sleep, and after it has read the flags as off it
\* takes no further step, so registers nobody.
C28_ListenerEnds ==
    /\ [](listener.polls <= 1 /\ listener.backoffs <= 1)
    /\ [][listener.observed => ~listener_alive' /\ listener'.at = "none"]_vars
    /\ (listener_alive /\ listener.stopped) ~> ~listener_alive

C28_Witness ==
    /\ ~listener_alive
    /\ listener.stopped
    /\ listener.observed
    /\ listener.polls = 1
    /\ listener.backoffs = 1

\* what the collaborators but Telegram did in a cycle: the probe, mysqldump,
\* os.remove in create_dump, the validation and the history it read, the
\* files the retention step selected and those os.remove refused
CycleChoices(t) ==
    [probe |-> t.last.probe, dump |-> t.last.dump, raised |-> t.last.raised,
     verdict |-> t.last.verdict, msg |-> t.last.msg, history |-> t.last.history,
     selected |-> t.last.selected, refused |-> t.last.refused]

\* C31: from any state and for anything mysqldump writes, the cycles that agree
\* on the probe, the dump, the validation and the deletions, whatever their
\* deliveries of notifications did, agree on what create_dump returned and on
\* the directory they leave.
C31_DeliveryDoesNotDecide ==
    clock < MaxDumps =>
        \A w \in CycleWrites :
            LET runs == scheduled_task(St, {w}, TRUE)
            IN Cardinality({<<CycleChoices(t), t.last.created, t.files>> : t \in runs})
                 = Cardinality({CycleChoices(t) : t \in runs})

C31_Witness ==
    /\ last.op = "scheduled_task"
    /\ last.verdict = "unsafe"
    /\ last.alerts # <<>>
    /\ last.alerts[Len(last.alerts)].kind = "critical"
    /\ last.alerts[Len(last.alerts)].failed # {}
    /\ ~last.alerts[Len(last.alerts)].ret
    /\ ~last.created
    /\ last.candidate \in Ids(files)

\* C32: a call of send_telegram_alert returns True exactly when one of its
\* deliveries succeeded: False when each of them failed, and False when there
\* was nobody to send to.
C32_TrueIffOneDelivered ==
    \A i \in DOMAIN last.alerts :
        LET a == last.alerts[i]
        IN /\ a.ret <=> (\E c \in a.to : c \notin a.failed)
           /\ (a.to # {} /\ a.failed = a.to) => ~a.ret
           /\ a.to = {} => ~a.ret

C32_Witness ==
    \E i \in DOMAIN last.alerts :
        /\ last.alerts[i].kind = "startup"
        /\ Cardinality(last.alerts[i].to) = 2
        /\ Cardinality(last.alerts[i].failed) = 1
        /\ last.alerts[i].ret

\* C33: load_subscribers after a call that ended in a successful
\* save_subscribers sets the subscribers to the set that was saved; on a file
\* that cannot be read it leaves the set empty; it does not raise.
C33_SaveThenLoad ==
    [][last'.op = "load_subscribers"
         => /\ last'.after_save => telegram_subscribers' = telegram_subscribers
            /\ ~subscribers_file.readable => telegram_subscribers' = {}
            /\ ~last'.raised]_vars

C33_Witness ==
    /\ last.op = "load_subscribers"
    /\ last.after_save
    /\ Cardinality(telegram_subscribers) = 2

\* C34 (as claimed): the retention step of a cycle comes after the validation
\* of that cycle, and deletes nothing while the cycle of another thread is
\* between its dump and its validation.
C34_RetentionOutsideValidation ==
    [][\A th \in Threads :
         (cycle_at[th].at # "idle" /\ cycle_at'[th].at = "idle")
           => /\ cycle_at[th].at = "returned"
              /\ \A o \in Threads \ {th} :
                   cycle_at[o].at = "dumped" => files' = files]_vars

\* C35 (as claimed): once stop() has returned and until the next start(), a
\* firing of the backup trigger, also one run_pending had selected before the
\* stop, makes no dump and deletes nothing.
C35_NoCycleAfterStop ==
    [][(~running /\ last'.op = "scheduled_task")
         => (files' = files /\ clock' = clock)]_vars

\* C36 (as claimed): a dump that passes the validation has not the size of a
\* dump the size check refused since a dump last passed.
C36_RefusedStaysRefused ==
    [][(last'.op = "scheduled_task" /\ last'.verdict = "safe"
          /\ last'.candidate \in Ids(files'))
         => FileOf(files', last'.candidate).size \notin rejected]_vars

\* C37 (as claimed): the retention step of the scheduler of a database deletes
\* artifacts of that database only, and the history of its size check holds
\* artifacts of that database only, whatever the names of the other databases
\* of the directory.
C37_OtherDatabaseUntouched ==
    /\ [][last'.retention
            => \A f \in files \ files' : f.database = last'.database]_vars
    /\ [](last.op = "check_size_consistency"
            => \A f \in files : f.id \in last.history => f.database = last.database)

\* the notices of a shutdown: the one of stop() and the one of quit_app
Farewells == {"shutdown", "quit"}

\* C38 (as claimed): over a run of quit_app, stop() and quick_shutdown() in any
\* order and interleaving, no chat is delivered more than one notice of a
\* shutdown.
C38_OneFarewell ==
    \A c \in Chats :
        Cardinality({i \in DOMAIN last.alerts :
                        /\ last.alerts[i].kind \in Farewells
                        /\ c \in last.alerts[i].to \ last.alerts[i].failed}) <= 1

\* C39: stop() returns with Telegram off, and from a state with Telegram off
\* no call turns it on again or delivers anything: a start() starts no
\* listener and no startup notice, the alerts of a failing dump and of a
\* later stop() go to nobody.
C39_StoppedStaysSilent ==
    /\ [](last.op = "stop" => ~telegram_enabled)
    /\ [][~telegram_enabled =>
            /\ ~telegram_enabled'
            /\ \A i \in DOMAIN last'.alerts :
                 last'.alerts[i].to = {} /\ ~last'.alerts[i].ret
            /\ stop_notices' = stop_notices
            /\ last'.op = "start" =>
                 /\ listener_alive' = listener_alive
                 /\ startup_pending' = startup_pending]_vars

\* a start() after a stop() that sent its notice: nothing to run but the trigger
C39_Witness ==
    /\ last.op = "start"
    /\ stop_notification_sent
    /\ running
    /\ ~telegram_enabled
    /\ ~listener_alive
    /\ ~startup_pending
    /\ telegram_subscribers # {}

\* C40: the offset the listener asks for and its last_update_id never go
\* down, no update_id begins an iteration of the for loop twice, whether or
\* not the iteration raised, and a welcome goes only to the chat of the update
\* handled, which was not a subscriber before.
C40_OffsetAndOnce ==
    /\ [][/\ listener'.offset >= listener.offset
          /\ listener'.last_update_id >= listener.last_update_id]_vars
    /\ [](\A i \in 1..MaxEvents : inbound.taken[i] <= 1)
    /\ [][last'.welcomed # 0 =>
            /\ last'.op = "listen_for_new_users"
            /\ last'.welcomed = last'.chat
            /\ last'.welcomed \notin telegram_subscribers
            /\ last'.welcomed \in telegram_subscribers']_vars

\* the iteration for update 1 raised, and update 2 was handled later and its
\* sender welcomed
C40_Witness ==
    /\ 1 \in inbound.raised
    /\ inbound.taken[1] = 1
    /\ inbound.taken[2] = 1
    /\ listener.last_update_id = 2
    /\ listener.offset = 2
    /\ last.welcomed # 0
====
